---- MODULE Spec2Model ----
(***************************************************************************)
(* Mask engine of the Sprite Mask Editor.                                  *)
(*                                                                         *)
(* widget : the fields of one MaskEditWidget (sprite_editor/widgets.py),   *)
(*          a record named after `self`; every method of the class is an   *)
(*          operator from a widget record to the widget record it leaves.  *)
(* roi    : the fields of one FrameROI (sprite_editor/roi.py).             *)
(* button : the left mouse button is held down (press and release events   *)
(*          of one button alternate).                                      *)
(* probe  : observations of the run so far, read only by the properties    *)
(*          and by the bounds of the specifications.                       *)
(* editor : the fields of the main window (sprite_editor/main_window.py)   *)
(*          that the extraction, the sorting, the filtering and the naming *)
(*          of the frames read and write, its MaskProcessor among them.    *)
(*                                                                         *)
(* The raster image is ImgW x ImgH.  Its pixel values are read only by the *)
(* OpenCV segmentation routines, which are modelled as nondeterministic    *)
(* choices over the label maps and masks they may return (or a raised      *)
(* exception); cv2.circle and cv2.line are modelled by the ideal disc and  *)
(* the ideal thick segment.  Pointer positions are given relative to the   *)
(* top-left corner of the displayed image at zoom factor 1.0.              *)
(***************************************************************************)
EXTENDS Integers, Sequences, FiniteSets, TLC

VARIABLES widget, roi, button, probe, editor

vars == <<widget, roi, button, probe, editor>>

\* Python's None: NoPoint where a point may stand, NoModel where a GMM may stand,
\* "None" as a return value, None where a raster, a rectangle or a record may stand
None == [none |-> TRUE]
NoPoint == <<>>
NoModel == "None"

(* ----------------------------- bounds --------------------------------- *)
\* width and height of the base image
ImgW == 2
ImgH == 2
\* history commits allowed in one behaviour of SpecBrush and of SpecSeeded
MaxCommits == 1
\* history commits allowed in one behaviour of SpecHistory and of SpecROI
MaxHistCommits == 33
\* changes of direction (commit / undo / redo) allowed in one behaviour of
\* SpecHistory and of SpecROI
MaxSwitch == 2
\* in a scripted history one commit in ClearEvery is a clear_mask
ClearEvery == 4
\* pieces typed into the line edit of the naming template
MaxPieces == 3
\* side of the images the mask is generated from
TileSide == 3

(* ------------------------ program constants --------------------------- *)
MAX_HISTORY_SIZE == 32
DEFAULT_BRUSH_SIZE == 12
GC_BGD == 0
GC_FGD == 1
GC_PR_BGD == 2
GC_PR_FGD == 3

(* ----------------------------- rasters -------------------------------- *)
\* pixel coordinates <<x, y>> of a w x h raster
PixOf(w, h) == (0 .. w - 1) \X (0 .. h - 1)
Pix == PixOf(ImgW, ImgH)

\* a raster is a record [w, h, px] with px a function on PixOf(w, h)
Uniform(w, h, v) == [w |-> w, h |-> h, px |-> [p \in PixOf(w, h) |-> v]]

Min(a, b) == IF a < b THEN a ELSE b
Max(a, b) == IF a > b THEN a ELSE b
Abs(a) == IF a < 0 THEN -a ELSE a

\* cv2.resize(m, (w, h), interpolation=cv2.INTER_NEAREST)
ResizeNearest(m, w, h) ==
    [w |-> w, h |-> h,
     px |-> [p \in PixOf(w, h) |->
               m.px[<<Min((p[1] * m.w) \div w, m.w - 1),
                      Min((p[2] * m.h) \div h, m.h - 1)>>]]]

\* a faulty variant of FitToImage, which the shape of the masks must tell from
\* it: the incoming mask is stored as it is given
FitToImage_as_given(m) == m

\* the mask stored for an incoming mask: resized when its shape is not the image's
FitToImage(m) ==
    IF <<m.h, m.w>> # <<ImgH, ImgW>> THEN ResizeNearest(m, ImgW, ImgH) ELSE m

(* ------------------------- drawing primitives ------------------------- *)
\* cv2.circle(img, c, radius, color, -1): the filled disc
InDisc(p, c, radius) ==
    (p[1] - c[1]) * (p[1] - c[1]) + (p[2] - c[2]) * (p[2] - c[2]) <= radius * radius

\* cv2.line(img, a, b, color, thickness): pixels within thickness/2 of segment a-b
InSegment(p, a, b, thickness) ==
    LET dx == b[1] - a[1]
        dy == b[2] - a[2]
        L  == dx * dx + dy * dy
        s  == (p[1] - a[1]) * dx + (p[2] - a[2]) * dy
        da == (p[1] - a[1]) * (p[1] - a[1]) + (p[2] - a[2]) * (p[2] - a[2])
        db == (p[1] - b[1]) * (p[1] - b[1]) + (p[2] - b[2]) * (p[2] - b[2])
    IN  IF L = 0 \/ s <= 0 THEN 4 * da <= thickness * thickness
        ELSE IF s >= L THEN 4 * db <= thickness * thickness
        ELSE 4 * (da * L - s * s) <= thickness * thickness * L

Circle(m, c, radius, color) ==
    [m EXCEPT !.px = [p \in DOMAIN m.px |->
                        IF InDisc(p, c, radius) THEN color ELSE m.px[p]]]

Line(m, a, b, color, thickness) ==
    [m EXCEPT !.px = [p \in DOMAIN m.px |->
                        IF InSegment(p, a, b, thickness) THEN color ELSE m.px[p]]]

(* ------------------- MaskEditWidget: signals, logs --------------------- *)
\* The record fields mask_edited and grabcut_mode_changed hold the payloads the
\* signals of those names emitted during the latest handler; gc_buttons is the
\* payload of the latest grabcut_mode_changed ever emitted; calls lists the
\* internal routines the latest handler ran; ret is its return value.
Emit_mask_edited(s) == [s EXCEPT !.mask_edited = Append(@, s.mask)]

Emit_grabcut_mode_changed(s, show) ==
    [s EXCEPT !.grabcut_mode_changed = Append(@, show), !.gc_buttons = show]

Called(s, name) == [s EXCEPT !.calls = Append(@, name)]

\* the widget between two handlers: the logs of the latest handler are dropped
Quiet(s) ==
    [s EXCEPT !.mask_edited = <<>>, !.grabcut_mode_changed = <<>>,
              !.calls = <<>>, !.ret = "None"]

(* ------------------- MaskEditWidget: construction ---------------------- *)
MaskEditWidget(mask) ==
    LET m == FitToImage(mask)
    IN  [mask |-> m,
         drawing |-> FALSE,
         brush_size |-> DEFAULT_BRUSH_SIZE,
         mode |-> "draw",
         last_point |-> NoPoint,
         refine_mode |-> "fg",
         grabcut_rect |-> None,
         drawing_rect |-> FALSE,
         rect_start_point |-> NoPoint,
         gc_mask |-> None,
         gc_bgd_model |-> NoModel,
         gc_fgd_model |-> NoModel,
         gc_initialized |-> FALSE,
         watershed_markers |-> None,
         watershed_marker_mode |-> "fg",
         panning |-> FALSE,
         history |-> <<m>>,
         history_idx |-> 0,
         mask_edited |-> <<>>,
         grabcut_mode_changed |-> <<>>,
         gc_buttons |-> FALSE,
         parent_dialog |-> [original_mask |-> m],
         calls |-> <<>>,
         ret |-> "None"]

(* ------------------- MaskEditWidget: modes ----------------------------- *)
Modes == {"draw", "erase", "grabcut_rect", "grabcut_refine", "watershed_mark"}

set_brush_size(s, size) == [s EXCEPT !.brush_size = size]

set_mode(s, mode) ==
    IF mode = s.mode THEN s
    ELSE
      LET s1 == [s EXCEPT !.mode = mode, !.drawing = FALSE,
                          !.drawing_rect = FALSE, !.panning = FALSE]
      IN  CASE mode = "grabcut_refine" ->
                 [Emit_grabcut_mode_changed(s1, TRUE) EXCEPT !.refine_mode = "fg"]
            [] mode = "grabcut_rect" ->
                 Emit_grabcut_mode_changed(s1, FALSE)
            [] mode = "watershed_mark" ->
                 [Emit_grabcut_mode_changed(s1, FALSE) EXCEPT
                     !.gc_initialized = FALSE,
                     !.gc_mask = None,
                     !.watershed_markers = Uniform(s.mask.w, s.mask.h, 0)]
            [] OTHER ->
                 [Emit_grabcut_mode_changed(s1, FALSE) EXCEPT
                     !.gc_initialized = FALSE,
                     !.gc_mask = None,
                     !.watershed_markers = None]

\* a faulty variant of enter_grabcut_rect_mode, which the payload of
\* grabcut_mode_changed must tell from it: the mode is set and nothing emitted
enter_grabcut_rect_mode_silent(s) ==
    [s EXCEPT !.mode = "grabcut_rect",
              !.grabcut_rect = None,
              !.drawing_rect = FALSE,
              !.rect_start_point = NoPoint,
              !.gc_initialized = FALSE,
              !.gc_mask = None]

enter_grabcut_rect_mode(s) ==
    Emit_grabcut_mode_changed(
        [s EXCEPT !.mode = "grabcut_rect",
                  !.grabcut_rect = None,
                  !.drawing_rect = FALSE,
                  !.rect_start_point = NoPoint,
                  !.gc_initialized = FALSE,
                  !.gc_mask = None],
        FALSE)

set_grabcut_marker_mode(s, marker_mode) ==
    LET s1 == IF s.mode # "grabcut_refine" THEN set_mode(s, "grabcut_refine") ELSE s
    IN  IF marker_mode \in {"fg", "bg"}
        THEN [s1 EXCEPT !.refine_mode = marker_mode]
        ELSE s1

\* self.mask is never None, so the error branch (no mask) is not modelled
enter_watershed_mode(s) ==
    LET s1 == set_mode(s, "watershed_mark")
    IN  IF s1.watershed_markers = None
        THEN [s1 EXCEPT !.watershed_markers = Uniform(s1.mask.w, s1.mask.h, 0)]
        ELSE s1

set_watershed_marker_mode(s, mode) ==
    LET s1 == IF s.mode # "watershed_mark" THEN set_mode(s, "watershed_mark") ELSE s
    IN  IF mode \in {"fg", "bg"}
        THEN [s1 EXCEPT !.watershed_marker_mode = mode]
        ELSE s1

(* ------------------- MaskEditWidget: history --------------------------- *)
\* Faulty variants of push_history, which the properties of the history must
\* tell from it: without the cap; without the truncation of the redo entries;
\* with the cap evicting the newest snapshots instead of the oldest.
push_history_uncapped(s) ==
    LET h1 == IF s.history_idx < Len(s.history) - 1
              THEN SubSeq(s.history, 1, s.history_idx + 1)
              ELSE s.history
        h2 == Append(h1, s.mask)
    IN  [Called(s, "push_history") EXCEPT !.history = h2, !.history_idx = Len(h2) - 1]

push_history_keeps_redo(s) ==
    LET h2 == Append(s.history, s.mask)
        s2 == Called(s, "push_history")
    IN  IF Len(h2) > MAX_HISTORY_SIZE
        THEN [s2 EXCEPT
                !.history = SubSeq(h2, Len(h2) - MAX_HISTORY_SIZE + 1, Len(h2)),
                !.history_idx = MAX_HISTORY_SIZE - 1]
        ELSE [s2 EXCEPT !.history = h2, !.history_idx = Len(h2) - 1]

push_history_evicts_newest(s) ==
    LET h1 == IF s.history_idx < Len(s.history) - 1
              THEN SubSeq(s.history, 1, s.history_idx + 1)
              ELSE s.history
        h2 == Append(h1, s.mask)
        s2 == Called(s, "push_history")
    IN  IF Len(h2) > MAX_HISTORY_SIZE
        THEN [s2 EXCEPT !.history = SubSeq(h2, 1, MAX_HISTORY_SIZE),
                        !.history_idx = MAX_HISTORY_SIZE - 1]
        ELSE [s2 EXCEPT !.history = h2, !.history_idx = Len(h2) - 1]

push_history(s) ==
    LET h1 == IF s.history_idx < Len(s.history) - 1
              THEN SubSeq(s.history, 1, s.history_idx + 1)
              ELSE s.history
        h2 == Append(h1, s.mask)
        i2 == s.history_idx + 1
        s2 == Called(s, "push_history")
    IN  IF Len(h2) > MAX_HISTORY_SIZE
        THEN [s2 EXCEPT
                !.history = SubSeq(h2, Len(h2) - MAX_HISTORY_SIZE + 1, Len(h2)),
                !.history_idx = Min(Len(h2), MAX_HISTORY_SIZE) - 1]
        ELSE [s2 EXCEPT !.history = h2, !.history_idx = i2]

set_mask(s, mask) ==
    LET s1 == [s EXCEPT !.gc_initialized = FALSE, !.gc_mask = None,
                        !.gc_bgd_model = NoModel, !.gc_fgd_model = NoModel]
        s2 == IF s1.mode = "grabcut_refine" THEN set_mode(s1, "draw") ELSE s1
        s3 == [s2 EXCEPT !.mask = FitToImage(mask)]
    IN  Emit_mask_edited(push_history(s3))

\* a faulty variant of undo, which the round trip must tell from it: the
\* pointer moves back and the mask is not restored
undo_keeps_mask(s) ==
    IF s.history_idx > 0
    THEN LET s1 == [s EXCEPT !.history_idx = @ - 1,
                             !.gc_initialized = FALSE,
                             !.gc_mask = None]
             s2 == IF s1.mode = "grabcut_refine" THEN set_mode(s1, "draw") ELSE s1
         IN  [Emit_mask_edited(s2) EXCEPT !.ret = "True"]
    ELSE [s EXCEPT !.ret = "False"]

\* a faulty variant of undo, which the payload of mask_edited must tell from
\* it: the signal is emitted before the mask is restored
undo_emits_stale(s) ==
    IF s.history_idx > 0
    THEN LET s0 == Emit_mask_edited(s)
             s1 == [s0 EXCEPT !.history_idx = @ - 1,
                              !.mask = s.history[s.history_idx],
                              !.gc_initialized = FALSE,
                              !.gc_mask = None]
             s2 == IF s1.mode = "grabcut_refine" THEN set_mode(s1, "draw") ELSE s1
         IN  [s2 EXCEPT !.ret = "True"]
    ELSE [s EXCEPT !.ret = "False"]

undo(s) ==
    IF s.history_idx > 0
    THEN LET s1 == [s EXCEPT !.history_idx = @ - 1,
                             !.mask = s.history[s.history_idx],
                             !.gc_initialized = FALSE,
                             !.gc_mask = None]
             s2 == IF s1.mode = "grabcut_refine" THEN set_mode(s1, "draw") ELSE s1
         IN  [Emit_mask_edited(s2) EXCEPT !.ret = "True"]
    ELSE [s EXCEPT !.ret = "False"]

redo(s) ==
    IF s.history_idx < Len(s.history) - 1
    THEN LET s1 == [s EXCEPT !.history_idx = @ + 1,
                             !.mask = s.history[s.history_idx + 2],
                             !.gc_initialized = FALSE,
                             !.gc_mask = None]
             s2 == IF s1.mode = "grabcut_refine" THEN set_mode(s1, "draw") ELSE s1
         IN  [Emit_mask_edited(s2) EXCEPT !.ret = "True"]
    ELSE [s EXCEPT !.ret = "False"]

clear_mask(s) ==
    LET s1 == push_history([s EXCEPT !.mask = Uniform(s.mask.w, s.mask.h, 0)])
        s2 == [s1 EXCEPT !.gc_initialized = FALSE, !.gc_mask = None]
        s3 == IF s2.mode = "grabcut_refine" THEN set_mode(s2, "draw") ELSE s2
    IN  Emit_mask_edited(s3)

(* ------------------- MaskEditWidget: coordinates ----------------------- *)
\* QRect(topLeft, bottomRight): width() = x2 - x1 + 1, height() = y2 - y1 + 1
QRect(a, b) == [x1 |-> a[1], y1 |-> a[2], x2 |-> b[1], y2 |-> b[2]]
RectWidth(r) == r.x2 - r.x1 + 1
RectHeight(r) == r.y2 - r.y1 + 1

\* QRect.normalized(): corners swapped where the width or the height is negative
Normalized(r) ==
    LET xs == IF r.x2 < r.x1 THEN <<r.x2 + 1, r.x1 - 1>> ELSE <<r.x1, r.x2>>
        ys == IF r.y2 < r.y1 THEN <<r.y2 + 1, r.y1 - 1>> ELSE <<r.y1, r.y2>>
    IN  [x1 |-> xs[1], y1 |-> ys[1], x2 |-> xs[2], y2 |-> ys[2]]

\* zoom factor 1.0, the pointer position taken relative to the image origin:
\* the image coordinates are the position clamped to the image
widget_to_image_coords(p) ==
    <<Max(0, Min(ImgW - 1, p[1])), Max(0, Min(ImgH - 1, p[2]))>>

\* the image rectangle <<x, y, w, h>>, or None
_rect_widget_to_image(s, rect) ==
    IF rect = None THEN None
    ELSE
      LET tl == widget_to_image_coords(<<rect.x1, rect.y1>>)
          br == widget_to_image_coords(<<rect.x2, rect.y2>>)
          img_x == Max(0, Min(tl[1], br[1]))
          img_y == Max(0, Min(tl[2], br[2]))
          img_w == Min(s.mask.w - img_x, Abs(tl[1] - br[1]))
          img_h == Min(s.mask.h - img_y, Abs(tl[2] - br[2]))
      IN  IF img_w > 0 /\ img_h > 0 THEN <<img_x, img_y, img_w, img_h>> ELSE None

(* ------------------- MaskEditWidget: painting -------------------------- *)
draw_point(s, point) ==
    [s EXCEPT !.mask = Circle(s.mask, point, s.brush_size \div 2,
                              IF s.mode = "draw" THEN 255 ELSE 0)]

draw_line_on_mask(s, p1, p2) ==
    [s EXCEPT !.mask = Line(s.mask, p1, p2,
                            IF s.mode = "draw" THEN 255 ELSE 0, s.brush_size)]

\* a faulty variant of _draw_grabcut_marker, which the seeded strokes must tell
\* from it: the marker is painted into the mask
_draw_grabcut_marker_on_mask(s, point) ==
    IF s.gc_mask = None \/ ~s.gc_initialized THEN s
    ELSE [s EXCEPT !.mask =
            Circle(s.mask, point, Max(1, s.brush_size \div 2),
                   IF s.refine_mode = "fg" THEN 255 ELSE 0)]

_draw_grabcut_marker(s, point) ==
    IF s.gc_mask = None \/ ~s.gc_initialized THEN s
    ELSE [s EXCEPT !.gc_mask =
            Circle(s.gc_mask, point, Max(1, s.brush_size \div 2),
                   IF s.refine_mode = "fg" THEN GC_FGD ELSE GC_BGD)]

_draw_grabcut_line(s, p1, p2) ==
    IF s.gc_mask = None \/ ~s.gc_initialized THEN s
    ELSE [s EXCEPT !.gc_mask =
            Line(s.gc_mask, p1, p2,
                 IF s.refine_mode = "fg" THEN GC_FGD ELSE GC_BGD, s.brush_size)]

_draw_watershed_marker(s, point) ==
    IF s.watershed_markers = None THEN s
    ELSE [s EXCEPT !.watershed_markers =
            Circle(s.watershed_markers, point, Max(1, s.brush_size \div 2),
                   IF s.watershed_marker_mode = "fg" THEN 1 ELSE 2)]

_draw_watershed_marker_line(s, p1, p2) ==
    IF s.watershed_markers = None THEN s
    ELSE [s EXCEPT !.watershed_markers =
            Line(s.watershed_markers, p1, p2,
                 IF s.watershed_marker_mode = "fg" THEN 1 ELSE 2, s.brush_size)]

(* ------------------- MaskEditWidget: rectangle-seeded (GrabCut) -------- *)
\* An outcome of cv2.grabCut is a record [raise, soft]: raise is "no" (it
\* returns), "early" (it raises before writing to the label map) or "late" (it
\* raises after writing to it); soft is the soft label (GC_PR_BGD or GC_PR_FGD)
\* the energy minimisation leaves on the pixels it decides.
GrabCutOutcomes == [raise : {"no", "early", "late"}, soft : {GC_PR_BGD, GC_PR_FGD}]

InRect(p, r) ==
    /\ r[1] <= p[1] /\ p[1] < r[1] + r[3]
    /\ r[2] <= p[2] /\ p[2] < r[2] + r[4]

\* GC_INIT_WITH_RECT: background outside the rectangle, soft labels inside
GrabCutInit(img_rect, out) ==
    [w |-> ImgW, h |-> ImgH,
     px |-> [p \in Pix |-> IF InRect(p, img_rect) THEN out.soft ELSE GC_BGD]]

\* GC_EVAL: hard labels are kept, soft labels are estimated again
GrabCutEval(gc, out) ==
    [gc EXCEPT !.px = [p \in DOMAIN gc.px |->
                         IF gc.px[p] \in {GC_BGD, GC_FGD} THEN gc.px[p]
                         ELSE out.soft]]

\* a faulty variant of finish_grabcut, which its result must tell from it:
\* only the hard foreground label becomes 255
finish_grabcut_hard_only(s) ==
    IF ~s.gc_initialized \/ s.gc_mask = None
    THEN set_mode(s, "draw")
    ELSE
      LET output_mask ==
              [w |-> s.gc_mask.w, h |-> s.gc_mask.h,
               px |-> [p \in DOMAIN s.gc_mask.px |->
                         IF s.gc_mask.px[p] = GC_FGD THEN 255 ELSE 0]]
          s1 == Emit_mask_edited(push_history([s EXCEPT !.mask = output_mask]))
          s2 == [s1 EXCEPT !.gc_initialized = FALSE,
                           !.gc_mask = None,
                           !.gc_bgd_model = NoModel,
                           !.gc_fgd_model = NoModel,
                           !.grabcut_rect = None,
                           !.drawing_rect = FALSE,
                           !.rect_start_point = NoPoint]
      IN  set_mode(s2, "draw")

finish_grabcut(s) ==
    IF ~s.gc_initialized \/ s.gc_mask = None
    THEN set_mode(s, "draw")
    ELSE
      LET output_mask ==
              [w |-> s.gc_mask.w, h |-> s.gc_mask.h,
               px |-> [p \in DOMAIN s.gc_mask.px |->
                         IF s.gc_mask.px[p] \in {GC_FGD, GC_PR_FGD} THEN 255 ELSE 0]]
          s1 == Emit_mask_edited(push_history([s EXCEPT !.mask = output_mask]))
          s2 == [s1 EXCEPT !.gc_initialized = FALSE,
                           !.gc_mask = None,
                           !.gc_bgd_model = NoModel,
                           !.gc_fgd_model = NoModel,
                           !.grabcut_rect = None,
                           !.drawing_rect = FALSE,
                           !.rect_start_point = NoPoint]
      IN  set_mode(s2, "draw")

_run_grabcut_initial(s, out) ==
    LET s0 == Called(s, "_run_grabcut_initial")
        img_rect == _rect_widget_to_image(s0, s0.grabcut_rect)
    IN  IF s0.grabcut_rect = None THEN s0
        ELSE IF img_rect = None
        THEN [s0 EXCEPT !.grabcut_rect = None, !.mode = "draw"]
        ELSE
          LET s1 == Called([s0 EXCEPT !.gc_mask = Uniform(ImgW, ImgH, GC_BGD),
                                      !.gc_bgd_model = "model",
                                      !.gc_fgd_model = "model"], "grabCut")
          IN  CASE out.raise = "no" ->
                     set_mode([s1 EXCEPT !.gc_mask = GrabCutInit(img_rect, out),
                                         !.gc_initialized = TRUE],
                              "grabcut_refine")
                [] out.raise = "early" -> finish_grabcut(s1)
                [] OTHER ->
                     finish_grabcut([s1 EXCEPT !.gc_mask = GrabCutInit(img_rect, out)])

_run_grabcut_refine(s, out) ==
    LET s0 == Called(s, "_run_grabcut_refine")
    IN  IF ~s0.gc_initialized \/ s0.gc_mask = None THEN s0
        ELSE
          LET s1 == Called(s0, "grabCut")
          IN  IF out.raise = "early" THEN s1
              ELSE [s1 EXCEPT !.gc_mask = GrabCutEval(s1.gc_mask, out)]

(* ------------------- MaskEditWidget: pointer events -------------------- *)
\* left button only; shift is the Shift keyboard modifier
mousePressEvent(s, pos, shift) ==
    CASE s.mode = "grabcut_rect" ->
           [s EXCEPT !.drawing_rect = TRUE,
                     !.rect_start_point = pos,
                     !.grabcut_rect = QRect(pos, pos)]
      [] s.mode # "grabcut_rect" /\ shift ->
           [s EXCEPT !.panning = TRUE]
      [] s.mode \in {"draw", "erase"} /\ ~shift ->
           draw_point([s EXCEPT !.drawing = TRUE, !.last_point = pos],
                      widget_to_image_coords(pos))
      [] s.mode = "grabcut_refine" /\ ~shift ->
           _draw_grabcut_marker([s EXCEPT !.drawing = TRUE, !.last_point = pos],
                                widget_to_image_coords(pos))
      [] s.mode = "watershed_mark" /\ ~shift ->
           _draw_watershed_marker([s EXCEPT !.drawing = TRUE, !.last_point = pos],
                                  widget_to_image_coords(pos))
      [] OTHER -> s

\* a faulty variant of mouseMoveEvent, which the strokes must tell from it:
\* every segment of a Draw or Erase stroke is committed
mouseMoveEvent_commits(s, pos) ==
    CASE s.drawing_rect ->
           [s EXCEPT !.grabcut_rect = Normalized(QRect(s.rect_start_point, pos))]
      [] ~s.drawing_rect /\ s.panning -> s
      [] ~s.drawing_rect /\ ~s.panning /\ s.drawing ->
           LET p1 == widget_to_image_coords(s.last_point)
               p2 == widget_to_image_coords(pos)
               s1 == CASE s.mode \in {"draw", "erase"} ->
                            push_history(draw_line_on_mask(s, p1, p2))
                       [] s.mode = "grabcut_refine" -> _draw_grabcut_line(s, p1, p2)
                       [] s.mode = "watershed_mark" ->
                            _draw_watershed_marker_line(s, p1, p2)
                       [] OTHER -> s
           IN  [s1 EXCEPT !.last_point = pos]
      [] OTHER -> s

mouseMoveEvent(s, pos) ==
    CASE s.drawing_rect ->
           [s EXCEPT !.grabcut_rect = Normalized(QRect(s.rect_start_point, pos))]
      [] ~s.drawing_rect /\ s.panning -> s
      [] ~s.drawing_rect /\ ~s.panning /\ s.drawing ->
           LET p1 == widget_to_image_coords(s.last_point)
               p2 == widget_to_image_coords(pos)
               s1 == CASE s.mode \in {"draw", "erase"} -> draw_line_on_mask(s, p1, p2)
                       [] s.mode = "grabcut_refine" -> _draw_grabcut_line(s, p1, p2)
                       [] s.mode = "watershed_mark" ->
                            _draw_watershed_marker_line(s, p1, p2)
                       [] OTHER -> s
           IN  [s1 EXCEPT !.last_point = pos]
      [] OTHER -> s

\* a faulty variant of the minimum-size check: 5 is accepted
RectAdequate_inclusive(r) == r # None /\ RectWidth(r) >= 5 /\ RectHeight(r) >= 5

\* the minimum-size check of the drag rectangle
RectAdequate(r) == r # None /\ RectWidth(r) > 5 /\ RectHeight(r) > 5

mouseReleaseEvent(s, out) ==
    CASE s.drawing_rect ->
           LET s1 == [s EXCEPT !.drawing_rect = FALSE]
               s2 == IF RectAdequate(s1.grabcut_rect)
                     THEN _run_grabcut_initial(s1, out)
                     ELSE [s1 EXCEPT !.grabcut_rect = None]
           IN  [s2 EXCEPT !.rect_start_point = NoPoint]
      [] ~s.drawing_rect /\ s.panning ->
           [s EXCEPT !.panning = FALSE]
      [] ~s.drawing_rect /\ ~s.panning /\ s.drawing ->
           CASE s.mode \in {"draw", "erase"} ->
                  Emit_mask_edited(
                      push_history([s EXCEPT !.drawing = FALSE, !.last_point = NoPoint]))
             [] s.mode = "grabcut_refine" ->
                  _run_grabcut_refine(
                      [s EXCEPT !.drawing = FALSE, !.last_point = NoPoint], out)
             [] s.mode = "watershed_mark" ->
                  [s EXCEPT !.drawing = FALSE, !.last_point = NoPoint]
             [] OTHER -> s
      [] OTHER -> s

(* ------------------- MaskEditWidget: marker-seeded (Watershed) --------- *)
\* An outcome of cv2.watershed is a record [raise, fill]: every seed pixel keeps
\* its label and every unmarked pixel is resolved to fill (1, 2, or the
\* boundary label -1).
WatershedOutcomes == [raise : BOOLEAN, fill : {-1, 1, 2}]

WatershedLabels(markers, out) ==
    [p \in DOMAIN markers.px |-> IF markers.px[p] = 0 THEN out.fill ELSE markers.px[p]]

HasLabel(markers, v) == \E p \in DOMAIN markers.px : markers.px[p] = v

\* A faulty variant of run_watershed_segmentation, which the failure of the
\* algorithm must tell from the code: the output mask is stored in self.mask
\* before cv2.watershed runs, so that an exception leaves a blank mask.
run_watershed_segmentation_in_place(s, out) ==
    IF s.watershed_markers = None THEN s
    ELSE IF ~HasLabel(s.watershed_markers, 1) \/ ~HasLabel(s.watershed_markers, 2)
    THEN Called(s, "QMessageBox.warning")
    ELSE
      LET s0 == Called([s EXCEPT !.mask = Uniform(s.mask.w, s.mask.h, 0)], "watershed")
          markers_copy == WatershedLabels(s.watershed_markers, out)
          output_mask ==
              [w |-> s.mask.w, h |-> s.mask.h,
               px |-> [p \in DOMAIN s.mask.px |->
                         IF markers_copy[p] = 1 THEN 255 ELSE 0]]
          s1 == IF out.raise THEN Called(s0, "QMessageBox.critical")
                ELSE set_mask(s0, output_mask)
      IN  [set_mode(s1, "draw") EXCEPT !.watershed_markers = None]

\* Faulty variants of run_watershed_segmentation, which its properties must
\* tell from it: without the finally clause, so that an exception leaves the
\* mode and the markers; without the check for the two seed labels.
run_watershed_segmentation_no_finally(s, out) ==
    IF s.watershed_markers = None THEN s
    ELSE IF ~HasLabel(s.watershed_markers, 1) \/ ~HasLabel(s.watershed_markers, 2)
    THEN Called(s, "QMessageBox.warning")
    ELSE
      LET s0 == Called(s, "watershed")
          markers_copy == WatershedLabels(s.watershed_markers, out)
          output_mask ==
              [w |-> s.mask.w, h |-> s.mask.h,
               px |-> [p \in DOMAIN s.mask.px |->
                         IF markers_copy[p] = 1 THEN 255 ELSE 0]]
      IN  IF out.raise THEN Called(s0, "QMessageBox.critical")
          ELSE [set_mode(set_mask(s0, output_mask), "draw")
                    EXCEPT !.watershed_markers = None]

run_watershed_segmentation_unchecked(s, out) ==
    IF s.watershed_markers = None THEN s
    ELSE
      LET s0 == Called(s, "watershed")
          markers_copy == WatershedLabels(s.watershed_markers, out)
          output_mask ==
              [w |-> s.mask.w, h |-> s.mask.h,
               px |-> [p \in DOMAIN s.mask.px |->
                         IF markers_copy[p] = 1 THEN 255 ELSE 0]]
          s1 == IF out.raise THEN Called(s0, "QMessageBox.critical")
                ELSE set_mask(s0, output_mask)
      IN  [set_mode(s1, "draw") EXCEPT !.watershed_markers = None]

run_watershed_segmentation(s, out) ==
    IF s.watershed_markers = None THEN s
    ELSE IF ~HasLabel(s.watershed_markers, 1) \/ ~HasLabel(s.watershed_markers, 2)
    THEN Called(s, "QMessageBox.warning")
    ELSE
      LET s0 == Called(s, "watershed")
          markers_copy == WatershedLabels(s.watershed_markers, out)
          output_mask ==
              [w |-> s.mask.w, h |-> s.mask.h,
               px |-> [p \in DOMAIN s.mask.px |->
                         IF markers_copy[p] = 1 THEN 255 ELSE 0]]
          s1 == IF out.raise THEN Called(s0, "QMessageBox.critical")
                ELSE set_mask(s0, output_mask)
      IN  [set_mode(s1, "draw") EXCEPT !.watershed_markers = None]

(* ------------------- MaskEditWidget: one-shot operations --------------- *)
\* cv2.erode / cv2.dilate with a k x k kernel of ones anchored at its centre;
\* pixels outside the raster do not take part
Window(m, p, k) ==
    {q \in DOMAIN m.px :
        /\ q[1] - p[1] >= -(k \div 2) /\ q[1] - p[1] <= (k - 1) - (k \div 2)
        /\ q[2] - p[2] >= -(k \div 2) /\ q[2] - p[2] <= (k - 1) - (k \div 2)}

SetMin(S) == CHOOSE v \in S : \A u \in S : v <= u
SetMax(S) == CHOOSE v \in S : \A u \in S : v >= u

Erode(m, k) ==
    [m EXCEPT !.px = [p \in DOMAIN m.px |-> SetMin({m.px[q] : q \in Window(m, p, k)})]]

Dilate(m, k) ==
    [m EXCEPT !.px = [p \in DOMAIN m.px |-> SetMax({m.px[q] : q \in Window(m, p, k)})]]

RECURSIVE ErodeN(_, _, _)
ErodeN(m, k, n) == IF n = 0 THEN m ELSE ErodeN(Erode(m, k), k, n - 1)

RECURSIVE DilateN(_, _, _)
DilateN(m, k, n) == IF n = 0 THEN m ELSE DilateN(Dilate(m, k), k, n - 1)

\* cv2.morphologyEx(m, MORPH_OPEN / MORPH_CLOSE, kernel, iterations=n)
MorphOpen(m, k, n) == DilateN(ErodeN(m, k, n), k, n)
MorphClose(m, k, n) == ErodeN(DilateN(m, k, n), k, n)

\* a faulty variant of auto_fix_morph, which a failure must tell from it: the
\* opening is applied to self.mask itself, and the exception comes after it
auto_fix_morph_in_place(s, params, raise) ==
    LET m1 == IF params.open_iter > 0 /\ params.open_k > 0
              THEN MorphOpen(s.mask, params.open_k, params.open_iter)
              ELSE s.mask
        m2 == IF params.close_iter > 0 /\ params.close_k > 0
              THEN MorphClose(m1, params.close_k, params.close_iter)
              ELSE m1
    IN  IF raise THEN Called([s EXCEPT !.mask = m1], "logging.exception")
        ELSE set_mask(s, m2)

\* params is [open_k, open_iter, close_k, close_iter]; raise: an OpenCV call raises
auto_fix_morph(s, params, raise) ==
    IF raise THEN Called(s, "logging.exception")
    ELSE
      LET m1 == IF params.open_iter > 0 /\ params.open_k > 0
                THEN MorphOpen(s.mask, params.open_k, params.open_iter)
                ELSE s.mask
          m2 == IF params.close_iter > 0 /\ params.close_k > 0
                THEN MorphClose(m1, params.close_k, params.close_iter)
                ELSE m1
      IN  set_mask(s, m2)

\* the edge detector and the adaptive threshold read only the base image: their
\* result is any binary mask of the image's shape, or an exception
edge_detect_canny(s, result, raise) ==
    IF raise THEN Called(s, "logging.exception") ELSE set_mask(s, result)

run_adaptive_threshold(s, result, raise) ==
    IF raise THEN Called(s, "logging.exception") ELSE set_mask(s, result)

(* ------------------- MaskEditDialog ------------------------------------ *)
\* MaskEditDialog.reset_mask, the Reset button and the R shortcut: yes is the
\* answer to the confirmation box; original_mask is the mask the dialog was
\* opened with, resized to the image
MaskEditDialog_reset_mask(s, yes) ==
    IF yes
    THEN set_mask(s, Uniform(s.parent_dialog.original_mask.w,
                             s.parent_dialog.original_mask.h, 0))
    ELSE s

(* ------------------- FrameROI ------------------------------------------ *)
FrameROI(mask) ==
    [mask |-> mask, mask_edit_history |-> <<mask>>, mask_edit_idx |-> 0, ret |-> "None"]

add_mask_to_history(r, mask) ==
    LET h1 == IF r.mask_edit_idx < Len(r.mask_edit_history) - 1
              THEN SubSeq(r.mask_edit_history, 1, r.mask_edit_idx + 1)
              ELSE r.mask_edit_history
        h2 == Append(h1, mask)
    IN  [r EXCEPT !.mask_edit_history = h2, !.mask_edit_idx = Len(h2) - 1,
                  !.ret = "None"]

get_current_mask(r) == r.mask_edit_history[r.mask_edit_idx + 1]

undo_mask(r) ==
    IF r.mask_edit_idx > 0
    THEN [r EXCEPT !.mask_edit_idx = @ - 1,
                   !.mask = r.mask_edit_history[r.mask_edit_idx],
                   !.ret = "True"]
    ELSE [r EXCEPT !.ret = "False"]

redo_mask(r) ==
    IF r.mask_edit_idx < Len(r.mask_edit_history) - 1
    THEN [r EXCEPT !.mask_edit_idx = @ + 1,
                   !.mask = r.mask_edit_history[r.mask_edit_idx + 2],
                   !.ret = "True"]
    ELSE [r EXCEPT !.ret = "False"]

reset_mask(r) ==
    IF r.mask_edit_history # <<>>
    THEN [r EXCEPT !.mask_edit_idx = 0, !.mask = r.mask_edit_history[1], !.ret = "True"]
    ELSE [r EXCEPT !.ret = "False"]

(* ------------------- fractions, sequences, strings ---------------------- *)
\* n / d with d > 0: the value of a true division, the key of a sort
Frac(n, d) == [num |-> n, den |-> d]
FracLess(a, b) == a.num * b.den < b.num * a.den
FracEq(a, b) == a.num * b.den = b.num * a.den
FracLeq(a, b) == a.num * b.den <= b.num * a.den

\* Python's s[:n]
SliceTo(s, n) ==
    IF n >= 0 THEN SubSeq(s, 1, Min(n, Len(s))) ELSE SubSeq(s, 1, Max(0, Len(s) + n))

\* the length of Python's s[a:b] on an axis of length n (a, b >= 0)
SliceLen(n, a, b) == Max(0, Min(n, b) - Min(n, a))

\* Python's sorted(s, key, reverse), keys[i] being key(s[i]): the sort is stable
\* in either direction
sorted(s, keys, reverse) ==
    LET before(i, j) ==
            \/ IF reverse THEN FracLess(keys[j], keys[i]) ELSE FracLess(keys[i], keys[j])
            \/ FracEq(keys[i], keys[j]) /\ i < j
        rank(i) == Cardinality({j \in DOMAIN s : before(j, i)}) + 1
    IN  [p \in DOMAIN s |-> s[CHOOSE i \in DOMAIN s : rank(i) = p]]

\* A string is the sequence of its characters; a character outside ASCII is
\* written by its code point ("u6807").
Digit(d) == <<"0", "1", "2", "3", "4", "5", "6", "7", "8", "9",
              "A", "B", "C", "D", "E", "F">>[d + 1]

RECURSIVE Numeral(_, _)
Numeral(n, base) ==
    IF n < base THEN <<Digit(n)>>
    ELSE Numeral(n \div base, base) \o <<Digit(n % base)>>

\* the digits after the point of r / den (r < den), at most `left` of them
RECURSIVE FractionDigits(_, _, _)
FractionDigits(r, den, left) ==
    IF r = 0 \/ left = 0 THEN <<>>
    ELSE <<Digit((r * 10) \div den)>> \o FractionDigits((r * 10) % den, den, left - 1)

\* the least j >= i with s[j] in chars, 0 when there is none
FirstAt(s, i, chars) ==
    IF \E j \in i..Len(s) : s[j] \in chars
    THEN CHOOSE j \in i..Len(s) :
            s[j] \in chars /\ \A k \in i..(j - 1) : s[k] \notin chars
    ELSE 0

\* the greatest j with s[j] = c, 0 when there is none: s.rfind(c) + 1
LastOf(s, c) ==
    IF \E j \in DOMAIN s : s[j] = c
    THEN CHOOSE j \in DOMAIN s : s[j] = c /\ \A k \in (j + 1)..Len(s) : s[k] # c
    ELSE 0

\* str.replace(old, new), old not empty: every occurrence, left to right
RECURSIVE str_replace(_, _, _)
str_replace(s, old, new) ==
    IF Len(s) < Len(old) THEN s
    ELSE IF SubSeq(s, 1, Len(old)) = old
         THEN new \o str_replace(SubSeq(s, Len(old) + 1, Len(s)), old, new)
         ELSE <<Head(s)>> \o str_replace(Tail(s), old, new)

UpperCase == <<"A", "B", "C", "D", "E", "F", "G", "H", "I", "J", "K", "L", "M",
               "N", "O", "P", "Q", "R", "S", "T", "U", "V", "W", "X", "Y", "Z">>
LowerCase == <<"a", "b", "c", "d", "e", "f", "g", "h", "i", "j", "k", "l", "m",
               "n", "o", "p", "q", "r", "s", "t", "u", "v", "w", "x", "y", "z">>

ToLower ==
    [c \in {UpperCase[k] : k \in DOMAIN UpperCase} |->
        LowerCase[CHOOSE k \in DOMAIN UpperCase : UpperCase[k] = c]]

str_lower(s) == [i \in DOMAIN s |-> IF s[i] \in DOMAIN ToLower THEN ToLower[s[i]] ELSE s[i]]

endswith(s, suffix) ==
    /\ Len(s) >= Len(suffix)
    /\ SubSeq(s, Len(s) - Len(suffix) + 1, Len(s)) = suffix

\* os.path.splitext: the extension starts at the last dot of the last path
\* component, unless only dots precede it there
splitext(p) ==
    LET sepIndex == LastOf(p, "/")
        dotIndex == LastOf(p, ".")
    IN  IF dotIndex > sepIndex
           /\ \E k \in (sepIndex + 1)..(dotIndex - 1) : p[k] # "."
        THEN <<SubSeq(p, 1, dotIndex - 1), SubSeq(p, dotIndex, Len(p))>>
        ELSE <<p, <<>> >>

\* Python values by type: int (v a natural), float (v a fraction), str
PyInt(n) == [type |-> "int", v |-> n]
PyFloat(n, d) == [type |-> "float", v |-> Frac(n, d)]
PyStr(s) == [type |-> "str", v |-> s]

\* str(value); a float prints its digits after the point (sixteen at most)
str(value) ==
    CASE value.type = "int" -> Numeral(value.v, 10)
      [] value.type = "str" -> value.v
      [] value.type = "float" ->
            LET whole == value.v.num \div value.v.den
                rest == value.v.num % value.v.den
            IN  Numeral(whole, 10) \o <<".">>
                \o (IF rest = 0 THEN <<"0">> ELSE FractionDigits(rest, value.v.den, 16))

\* a text padded on the left to `width` characters
PadLeft(s, fill, width) == [i \in 1..(Max(width, Len(s)) - Len(s)) |-> fill] \o s

\* what a conversion leaves: a text, or an exception raised
Formatted(text) == [raised |-> FALSE, text |-> text]
Raised == [raised |-> TRUE, text |-> <<>>]

\* format(value, format_spec) for the specifications [0][width]type with a
\* one-digit width and the type d, X (capital hexadecimal), s or Q: d and X
\* take an int, s takes a str, a float takes none of them, and Q is no type.
\* The rest of the format mini-language is not used by the templates here.
format(value, format_spec) ==
    LET n == Len(format_spec)
        type == format_spec[n]
        zero == n >= 3 /\ format_spec[1] = "0"
        flags == SubSeq(format_spec, 1, n - 1)
        widths == {k \in 1..9 : flags = <<Digit(k)>> \/ flags = <<"0", Digit(k)>>}
        width == IF widths = {} THEN 0 ELSE CHOOSE k \in widths : TRUE
        known == flags = <<>> \/ widths # {}
    IN  CASE known /\ value.type = "int" /\ type = "d" ->
                Formatted(PadLeft(Numeral(value.v, 10), IF zero THEN "0" ELSE " ", width))
          [] known /\ value.type = "int" /\ type = "X" ->
                Formatted(PadLeft(Numeral(value.v, 16), IF zero THEN "0" ELSE " ", width))
          [] known /\ ~zero /\ value.type = "str" /\ type = "s" ->
                Formatted(value.v
                          \o [i \in 1..(Max(width, Len(value.v)) - Len(value.v)) |-> " "])
          [] OTHER -> Raised

(* ------------------- render_filename ------------------------------------ *)
PLACEHOLDER_MAP ==
    (<<"[", "u7d22", "u5f15", "]">> :> "idx")
    @@ (<<"[", "X", "]">> :> "x")
    @@ (<<"[", "Y", "]">> :> "y")
    @@ (<<"[", "u5bbd", "]">> :> "w")
    @@ (<<"[", "u9ad8", "]">> :> "h")
    @@ (<<"[", "u9762", "u79ef", "]">> :> "area")
    @@ (<<"[", "u957f", "u5bbd", "u6bd4", "]">> :> "aspect_ratio")
    @@ (<<"[", "u6807", "u7b7e", "]">> :> "tag")
    @@ (<<"[", "u5907", "u6ce8", "]">> :> "note")

\* getattr(roi, attr_name): cv2.contourArea and the true division give floats
getattr(r, attr_name) ==
    CASE attr_name = "idx" -> PyInt(r.idx)
      [] attr_name = "x" -> PyInt(r.x)
      [] attr_name = "y" -> PyInt(r.y)
      [] attr_name = "w" -> PyInt(r.w)
      [] attr_name = "h" -> PyInt(r.h)
      [] attr_name = "area" -> PyFloat(r.area, 1)
      [] attr_name = "aspect_ratio" ->
            IF r.h > 0 THEN PyFloat(r.aspect_ratio.num, r.aspect_ratio.den) ELSE PyInt(0)
      [] attr_name = "tag" -> PyStr(r.tag)
      [] attr_name = "note" -> PyStr(r.note)

\* the match of \[([^\]:]+)(?::([^\]]+))?\] that starts at s[i], None when there
\* is none; format_spec is empty when group 2 took no part
placeholder_pattern_match(s, i) ==
    IF s[i] # "[" THEN None
    ELSE LET j == FirstAt(s, i + 1, {"]", ":"})
         IN  IF j = 0 \/ j = i + 1 THEN None
             ELSE IF s[j] = "]"
                  THEN [last |-> j, placeholder |-> SubSeq(s, i, j),
                        name_key |-> SubSeq(s, i + 1, j - 1), format_spec |-> <<>>]
                  ELSE LET k == FirstAt(s, j + 1, {"]"})
                       IN  IF k = 0 \/ k = j + 1 THEN None
                           ELSE [last |-> k, placeholder |-> SubSeq(s, i, k),
                                 name_key |-> SubSeq(s, i + 1, j - 1),
                                 format_spec |-> SubSeq(s, j + 1, k - 1)]

\* placeholder_pattern.finditer(s): the matches from s[i] on, left to right,
\* none overlapping another
RECURSIVE placeholder_pattern_finditer(_, _)
placeholder_pattern_finditer(s, i) ==
    IF i > Len(s) THEN <<>>
    ELSE LET match == placeholder_pattern_match(s, i)
         IN  IF match = None THEN placeholder_pattern_finditer(s, i + 1)
             ELSE <<match>> \o placeholder_pattern_finditer(s, match.last + 1)

\* the body of the loop over the matches
render_placeholder(rendered_name, match, r) ==
    LET key == <<"[">> \o match.name_key \o <<"]">>
    IN  IF key \in DOMAIN PLACEHOLDER_MAP
        THEN LET value == getattr(r, PLACEHOLDER_MAP[key])
                 formatted_value == IF match.format_spec # <<>>
                                    THEN format(value, match.format_spec)
                                    ELSE Formatted(str(value))
             IN  IF ~formatted_value.raised
                 THEN str_replace(rendered_name, match.placeholder, formatted_value.text)
                 ELSE str_replace(rendered_name, match.placeholder, str(value))
        ELSE rendered_name

RECURSIVE render_placeholders(_, _, _)
render_placeholders(rendered_name, matches, r) ==
    IF matches = <<>> THEN rendered_name
    ELSE render_placeholders(render_placeholder(rendered_name, Head(matches), r),
                             Tail(matches), r)

invalid_chars == {"\\", "/", ":", "*", "?", "\"", "<", ">", "|"}

\* re.sub(invalid_chars, '_', rendered_name)
sanitize(rendered_name) ==
    [i \in DOMAIN rendered_name |->
        IF rendered_name[i] \in invalid_chars THEN "_" ELSE rendered_name[i]]

png == <<".", "p", "n", "g">>

\* an ensure_png that only adds a missing extension
ensure_png_only_when_missing(rendered_name) ==
    IF "." \notin {splitext(rendered_name)[2][i] : i \in DOMAIN splitext(rendered_name)[2]}
    THEN rendered_name \o png
    ELSE rendered_name

\* the last statement of render_filename: the extension
ensure_png(rendered_name) ==
    IF "." \notin {splitext(rendered_name)[2][i] : i \in DOMAIN splitext(rendered_name)[2]}
    THEN rendered_name \o png
    ELSE IF ~endswith(str_lower(rendered_name), png)
         THEN splitext(rendered_name)[1] \o png
         ELSE rendered_name

render_filename(template, r) ==
    ensure_png(sanitize(render_placeholders(template,
                                            placeholder_pattern_finditer(template, 1), r)))

(* ------------------- MaskProcessor -------------------------------------- *)
MaskProcessor ==
    [color_thresh |-> 40, pad |-> 4, kernel_size |-> 5, max_extract |-> 12,
     min_area |-> 500, max_area |-> 1000000, close_iter |-> 2, open_iter |-> 1,
     out_width |-> 128, out_height |-> 128]

\* FrameROI(img, mask, x, y, w, h, area, idx); an image or a mask whose pixels
\* are not read is given by its shape [w, h]
FrameROI__init__(img, mask, x, y, w, h, area, idx) ==
    [img |-> img, x |-> x, y |-> y, w |-> w, h |-> h, area |-> area, idx |-> idx,
     aspect_ratio |-> IF h > 0 THEN Frac(w, h) ELSE Frac(0, 1),
     selected |-> FALSE, tag |-> <<>>, note |-> <<>>] @@ FrameROI(mask)

\* get_bg_samples(img_np): the colours at the corners, at the middle of the
\* left and of the top edge and at the centre; img_np[row, col] is px[<<col, row>>]
\* and a colour is <<r, g, b>> (the alpha channel is not read)
get_bg_samples(img_np) ==
    LET h == img_np.h
        w == img_np.w
    IN  <<img_np.px[<<0, 0>>], img_np.px[<<w - 1, 0>>], img_np.px[<<0, h - 1>>],
          img_np.px[<<w - 1, h - 1>>], img_np.px[<<0, h \div 2>>],
          img_np.px[<<w \div 2, 0>>], img_np.px[<<w \div 2, h \div 2>>]>>

\* the square of np.linalg.norm(colour - sample): the difference of two uint8
\* arrays is taken modulo 256 before the norm is
NormSquared(colour, sample) ==
    LET d(c) == (colour[c] - sample[c]) % 256
    IN  d(1) * d(1) + d(2) * d(2) + d(3) * d(3)

\* a gen_mask whose threshold is not scaled to 255
gen_mask_unscaled(self, img_np) ==
    LET bg_samples == get_bg_samples(img_np)
        dist2(p) == SetMin({NormSquared(img_np.px[p], bg_samples[i]) : i \in DOMAIN bg_samples})
        mask_fg == [w |-> img_np.w, h |-> img_np.h,
                    px |-> [p \in DOMAIN img_np.px |->
                              IF dist2(p) > self.color_thresh * self.color_thresh
                              THEN 1 ELSE 0]]
    IN  MorphOpen(MorphClose(mask_fg, self.kernel_size, self.close_iter),
                  self.kernel_size, self.open_iter)

\* gen_mask(img_np); dist > color_thresh is decided on the squares
\* (color_thresh >= 0)
gen_mask(self, img_np) ==
    LET bg_samples == get_bg_samples(img_np)
        dist2(p) == SetMin({NormSquared(img_np.px[p], bg_samples[i]) : i \in DOMAIN bg_samples})
        mask_fg == [w |-> img_np.w, h |-> img_np.h,
                    px |-> [p \in DOMAIN img_np.px |->
                              IF dist2(p) > self.color_thresh * self.color_thresh
                              THEN 255 ELSE 0]]
    IN  MorphOpen(MorphClose(mask_fg, self.kernel_size, self.close_iter),
                  self.kernel_size, self.open_iter)

\* img_np[y:y+h2, x:x+w2] of an image whose pixels are read
img_slice(img_np, x, y, w2, h2) ==
    LET w == SliceLen(img_np.w, x, x + w2)
        h == SliceLen(img_np.h, y, y + h2)
    IN  [w |-> w, h |-> h,
         px |-> [p \in PixOf(w, h) |-> img_np.px[<<x + p[1], y + p[2]>>]]]

\* a compositing that always starts at the top left corner of the canvas
composite_at_corner(self, roi_img_with_alpha) ==
    LET out_h == self.out_height
        out_w == self.out_width
        cy == Min(roi_img_with_alpha.h, out_h)
        cx == Min(roi_img_with_alpha.w, out_w)
    IN  [w |-> out_w, h |-> out_h,
         px |-> [p \in PixOf(out_w, out_h) |->
                   IF p[1] < cx /\ p[2] < cy
                   THEN roi_img_with_alpha.px[p] ELSE 0]]

\* the canvas of extract_rois: zeros of out_height x out_width, and
\* canvas[sy:sy+cy, sx:sx+cx] = roi_img_with_alpha[:cy, :cx]
composite(self, roi_img_with_alpha) ==
    LET out_h == self.out_height
        out_w == self.out_width
        ry == roi_img_with_alpha.h
        rx == roi_img_with_alpha.w
        sy == Max((out_h - ry) \div 2, 0)
        sx == Max((out_w - rx) \div 2, 0)
        cy == Min(ry, out_h - sy)
        cx == Min(rx, out_w - sx)
    IN  [w |-> out_w, h |-> out_h,
         px |-> [p \in PixOf(out_w, out_h) |->
                   IF /\ sx <= p[1] /\ p[1] < sx + cx
                      /\ sy <= p[2] /\ p[2] < sy + cy
                   THEN roi_img_with_alpha.px[<<p[1] - sx, p[2] - sy>>]
                   ELSE 0]]

\* the loop of extract_rois over the contours kept, idx the next index; a
\* contour is given by its cv2.contourArea and its cv2.boundingRect
RECURSIVE extract_rois_loop(_, _, _, _)
extract_rois_loop(self, img_np, contours, idx) ==
    IF contours = <<>> THEN <<>>
    ELSE LET cnt == Head(contours)
             area == cnt.area
         IN  IF area < self.min_area \/ area > self.max_area
             THEN extract_rois_loop(self, img_np, Tail(contours), idx)
             ELSE LET pad == self.pad
                      x == Max(0, cnt.rect[1] - pad)
                      y == Max(0, cnt.rect[2] - pad)
                      w2 == Min(img_np.w - x, cnt.rect[3] + 2 * pad)
                      h2 == Min(img_np.h - y, cnt.rect[4] + 2 * pad)
                      roi_mask == [w |-> SliceLen(img_np.w, x, x + w2),
                                   h |-> SliceLen(img_np.h, y, y + h2)]
                      canvas == IF "px" \in DOMAIN img_np
                                THEN composite(self, img_slice(img_np, x, y, w2, h2))
                                ELSE [w |-> self.out_width, h |-> self.out_height]
                  IN  <<FrameROI__init__(canvas, roi_mask, x, y, w2, h2, area, idx)>>
                      \o extract_rois_loop(self, img_np, Tail(contours), idx + 1)

\* extract_rois that looks at every contour
extract_rois_uncut(self, img_np, found) ==
    extract_rois_loop(self, img_np,
                      sorted(found, [i \in DOMAIN found |-> Frac(found[i].area, 1)], TRUE),
                      1)

\* extract_rois that drops the contours out of range before it cuts the list
extract_rois_filter_first(self, img_np, found) ==
    LET contours == sorted(found, [i \in DOMAIN found |-> Frac(found[i].area, 1)], TRUE)
        in_range(cnt) == self.min_area <= cnt.area /\ cnt.area <= self.max_area
    IN  extract_rois_loop(self, img_np,
                          SliceTo(SelectSeq(contours, in_range), self.max_extract), 1)

\* extract_rois(img_np, mask_fg), found being the contours cv2.findContours
\* finds in mask_fg
extract_rois(self, img_np, found) ==
    LET contours == sorted(found, [i \in DOMAIN found |-> Frac(found[i].area, 1)], TRUE)
    IN  extract_rois_loop(self, img_np, SliceTo(contours, self.max_extract), 1)

\* key=lambda r: getattr(r, by)
SortKey(r, by) ==
    CASE by = "idx" -> Frac(r.idx, 1)
      [] by = "area" -> Frac(r.area, 1)
      [] by = "x" -> Frac(r.x, 1)
      [] by = "y" -> Frac(r.y, 1)
      [] by = "w" -> Frac(r.w, 1)
      [] by = "h" -> Frac(r.h, 1)
      [] by = "aspect_ratio" -> r.aspect_ratio

\* sort_rois that sorts by idx in the direction asked for
sort_rois_honours_reverse(rois, by, reverse) ==
    sorted(rois, [i \in DOMAIN rois |-> SortKey(rois[i], by)], reverse)

\* sort_rois that numbers the ROIs again by their place
sort_rois_renumbering(rois, by, reverse) ==
    LET s == sorted(rois, [i \in DOMAIN rois |-> SortKey(rois[i], by)],
                    IF by = "idx" THEN FALSE ELSE reverse)
    IN  [i \in DOMAIN s |-> [s[i] EXCEPT !.idx = i]]

sort_rois(rois, by, reverse) ==
    sorted(rois, [i \in DOMAIN rois |-> SortKey(rois[i], by)],
           IF by = "idx" THEN FALSE ELSE reverse)

\* a range is None or [lo, hi]; the bounds of aspect_range are fractions

\* filter_rois whose bounds are exclusive
filter_rois_strict(rois, area_range, aspect_range, x_range, y_range) ==
    LET keep(r) ==
            /\ ~(area_range # None
                 /\ ~(area_range.lo < r.area /\ r.area < area_range.hi))
            /\ ~(aspect_range # None
                 /\ ~(FracLess(aspect_range.lo, r.aspect_ratio)
                      /\ FracLess(r.aspect_ratio, aspect_range.hi)))
            /\ ~(x_range # None /\ ~(x_range.lo < r.x /\ r.x < x_range.hi))
            /\ ~(y_range # None /\ ~(y_range.lo < r.y /\ r.y < y_range.hi))
    IN  SelectSeq(rois, keep)

filter_rois(rois, area_range, aspect_range, x_range, y_range) ==
    LET keep(r) ==
            /\ ~(area_range # None
                 /\ ~(area_range.lo <= r.area /\ r.area <= area_range.hi))
            /\ ~(aspect_range # None
                 /\ ~(FracLeq(aspect_range.lo, r.aspect_ratio)
                      /\ FracLeq(r.aspect_ratio, aspect_range.hi)))
            /\ ~(x_range # None /\ ~(x_range.lo <= r.x /\ r.x <= x_range.hi))
            /\ ~(y_range # None /\ ~(y_range.lo <= r.y /\ r.y <= y_range.hi))
    IN  SelectSeq(rois, keep)

(* ------------------- SpriteMaskEditor ----------------------------------- *)
\* "frame_{idx:02d}_{x}_{y}.png"
DefaultTemplate ==
    <<"f", "r", "a", "m", "e", "_", "{", "i", "d", "x", ":", "0", "2", "d", "}",
      "_", "{", "x", "}", "_", "{", "y", "}", ".", "p", "n", "g">>

\* a naming template of the stored settings
StoredTemplate == <<"[", "X", ":", "0", "3", "d", "]">>

\* The main window.  img_np: the sheet loaded (None before), given by its
\* shape where its pixels are not read; mask: the mask generated from it;
\* found: the contours cv2.findContours finds in self.mask; naming_input: the
\* pieces typed into the line edit, its text being their concatenation;
\* sort_order_combo: the index chosen in the combo box of the direction.
SpriteMaskEditor ==
    [img_np |-> None, mask |-> None, found |-> <<>>, processor |-> MaskProcessor,
     _all_rois |-> <<>>, rois |-> <<>>, current_idx |-> -1,
     sort_by |-> "idx", sort_reverse |-> FALSE, sort_order_combo |-> 0,
     area_range |-> [lo |-> MaskProcessor.min_area, hi |-> MaskProcessor.max_area],
     aspect_range |-> [lo |-> Frac(0, 1), hi |-> Frac(99, 1)],
     naming_template |-> DefaultTemplate,
     naming_input |-> <<DefaultTemplate>>,
     naming_preview |-> <<"N", "/", "A">>]

\* QLineEdit.text()
RECURSIVE text(_)
text(pieces) == IF pieces = <<>> THEN <<>> ELSE Head(pieces) \o text(Tail(pieces))

on_naming_change(e) ==
    LET template == text(e.naming_input)
        preview_idx == IF 0 <= e.current_idx /\ e.current_idx < Len(e.rois)
                       THEN e.current_idx ELSE 0
    IN  [e EXCEPT !.naming_template = template,
                  !.naming_preview =
                      IF e.rois # <<>>
                      THEN render_filename(template, e.rois[preview_idx + 1])
                      ELSE <<"N", "/", "A">>]

\* the tail that refresh_sort_filter and _extract_and_update_rois share
show_rois(e, all_rois) ==
    LET filtered_rois == filter_rois(all_rois, e.area_range, e.aspect_range, None, None)
        sorted_rois == sort_rois(filtered_rois, e.sort_by, e.sort_reverse)
    IN  on_naming_change([e EXCEPT !._all_rois = all_rois,
                                   !.rois = sorted_rois,
                                   !.current_idx = IF sorted_rois # <<>> THEN 0 ELSE -1])

refresh_sort_filter(e) ==
    IF e._all_rois = <<>> THEN e ELSE show_rois(e, e._all_rois)

_extract_and_update_rois(e) ==
    show_rois(e, extract_rois(e.processor, e.img_np, e.found))

refresh_rois_only(e) ==
    IF e.img_np = None THEN e ELSE _extract_and_update_rois(e)

\* the four spin boxes of the extraction hold pad, max_extract, out_width and
\* out_height
on_param_change(e, pad, max_extract, out_width, out_height) ==
    LET e1 == [e EXCEPT !.processor.pad = pad,
                        !.processor.max_extract = max_extract,
                        !.processor.out_width = out_width,
                        !.processor.out_height = out_height]
    IN  IF e1.img_np # None THEN _extract_and_update_rois(e1) ELSE e1

bys == <<"idx", "area", "x", "y", "w", "h", "aspect_ratio", "idx">>

\* the combo box of the key shows entry currentIndex
on_sort_change(e, currentIndex) ==
    LET selected_by == bys[currentIndex + 1]
        e1 == IF selected_by = "idx"
              THEN [e EXCEPT !.sort_by = selected_by, !.sort_reverse = FALSE,
                             !.sort_order_combo = 1]
              ELSE [e EXCEPT !.sort_by = selected_by,
                             !.sort_reverse = (e.sort_order_combo = 0)]
    IN  IF e1.rois # <<>> THEN refresh_sort_filter(e1) ELSE e1

\* the combo box of the direction shows entry currentIndex
on_sort_order_change(e, currentIndex) ==
    LET e1 == [e EXCEPT !.sort_order_combo = currentIndex]
    IN  IF e1.sort_by = "idx" THEN e1
        ELSE LET e2 == [e1 EXCEPT !.sort_reverse = (currentIndex = 0)]
             IN  IF e2.rois # <<>> THEN refresh_sort_filter(e2) ELSE e2

\* the spin boxes of the filter hold area_range and aspect_range
on_filter_change(e, area_range, aspect_range) ==
    LET e1 == [e EXCEPT !.area_range = area_range, !.aspect_range = aspect_range]
    IN  IF e1.rois # <<>> THEN refresh_sort_filter(e1) ELSE e1

\* MaskEditDialog.get_mask()
get_mask(dialog) == dialog.mask

\* an on_edit_mask that hands every snapshot of the editor to the ROI
on_edit_mask_replaying(r, dialog) ==
    LET RECURSIVE replay(_, _)
        replay(r1, snaps) ==
            IF snaps = <<>> THEN r1
            ELSE replay(add_mask_to_history([r1 EXCEPT !.mask = Head(snaps)], Head(snaps)),
                        Tail(snaps))
    IN  replay(r, Tail(dialog.history))

\* on_edit_mask once dialog.exec() returned Accepted: roi.mask = edited_mask;
\* roi.add_mask_to_history(edited_mask)
on_edit_mask_accepted(r, dialog) ==
    LET edited_mask == get_mask(dialog)
    IN  add_mask_to_history([r EXCEPT !.mask = edited_mask], edited_mask)

(* ------------------- observations -------------------------------------- *)
Core(w) == [mask |-> w.mask, history |-> w.history, history_idx |-> w.history_idx]

\* the handler that has just run pushed a snapshot
Committed(w) == \E i \in DOMAIN w.calls : w.calls[i] = "push_history"

Ran(w, name) == \E i \in DOMAIN w.calls : w.calls[i] = name

\* commit / undo / redo when the handler moved the history, none otherwise
HistKind(name, committed, ret) ==
    CASE committed -> "commit"
      [] ~committed /\ name \in {"undo", "undo_mask"} /\ ret = "True" -> "undo"
      [] ~committed /\ name \in {"redo", "redo_mask"} /\ ret = "True" -> "redo"
      [] ~committed /\ name = "reset_mask" -> "reset"
      [] OTHER -> "none"

InitProbe ==
    [tool |-> "any",       \* the seeded tool of the session (SpecSeeded)
     n |-> 0,              \* commits so far
     by |-> "__init__",    \* the handler that pushed the latest snapshot
     kind |-> "commit",    \* direction of the latest move of the history
     switches |-> 0,       \* changes of direction so far
     consec |-> 0,         \* commits of the latest run of commits made in a row
     moved |-> FALSE,      \* an undo, redo or reset succeeded since the latest commit
     undos |-> -1,         \* undo calls made in a row right after that run
     dropped |-> 0,        \* redo entries the latest commit dropped
     uru |-> 0,            \* progress through undo, redo, undo (made in a row)
     saved |-> None,       \* Core after the first undo of that sequence
     stroke |-> "none",    \* none, pressed, released, undone
     pre |-> None,         \* Core and commit count just before the press
     session |-> [result |-> "none"]]  \* the latest session of on_edit_mask

\* The observations after handler `name`.  committed: it pushed a snapshot,
\* dropping `dropped` redo entries; ret: its return value; c1, c2: Core before
\* and after; starts: it is a press that began a Draw/Erase stroke.
\* L.ghost = "history": the runs of commits and of undo calls are observed;
\* L.ghost = "stroke": the strokes and the undo, redo, undo sequences are;
\* L.ghost = "none": only the commits are.
NextProbe(L, name, committed, dropped, ret, c1, c2, starts) ==
    LET k == HistKind(name, committed, ret)
        h == L.ghost = "history"
        g == L.ghost = "stroke"
        going == ~starts /\ name = "mouseMoveEvent" /\ probe.stroke = "pressed"
        ends == name = "mouseReleaseEvent" /\ probe.stroke = "pressed"
        undone == name = "undo" /\ probe.stroke = "released"
    IN  [tool |-> probe.tool,
         n |-> probe.n + (IF k = "commit" THEN 1 ELSE 0),
         by |-> IF k = "commit" THEN name ELSE probe.by,
         kind |-> IF h /\ k # "none" THEN k ELSE probe.kind,
         switches |-> probe.switches + (IF h /\ k # "none" /\ k # probe.kind THEN 1 ELSE 0),
         consec |-> IF h /\ k = "commit"
                    THEN (IF probe.moved THEN 1 ELSE probe.consec + 1)
                    ELSE probe.consec,
         moved |-> CASE h /\ k = "commit" -> FALSE
                     [] h /\ k \in {"undo", "redo", "reset"} -> TRUE
                     [] OTHER -> probe.moved,
         undos |-> CASE h /\ k = "commit" -> 0
                     [] h /\ k # "commit" /\ name \in {"undo", "undo_mask"}
                          /\ probe.undos >= 0 -> probe.undos + 1
                     [] h /\ k # "commit" /\ name \in {"undo", "undo_mask"}
                          /\ probe.undos < 0 -> -1
                     [] h /\ k # "commit" /\ name \notin {"undo", "undo_mask"} -> -1
                     [] OTHER -> probe.undos,
         dropped |-> IF h /\ k = "commit" THEN dropped ELSE 0,
         uru |-> CASE g /\ k = "undo" -> IF probe.uru = 2 THEN 3 ELSE 1
                   [] g /\ k = "redo" -> IF probe.uru \in {1, 3} THEN 2 ELSE 0
                   [] OTHER -> 0,
         saved |-> CASE g /\ k = "undo" -> IF probe.uru = 2 THEN probe.saved ELSE c2
                     [] g /\ k = "redo" -> IF probe.uru \in {1, 3} THEN probe.saved ELSE None
                     [] OTHER -> None,
         stroke |-> CASE g /\ starts -> "pressed"
                      [] g /\ going -> "pressed"
                      [] g /\ ends -> "released"
                      [] g /\ undone /\ ret = "True" -> "undone"
                      [] OTHER -> "none",
         pre |-> CASE g /\ starts -> [core |-> c1, n |-> probe.n]
                   [] g /\ (going \/ ends) -> probe.pre
                   [] g /\ undone /\ ret = "True" -> probe.pre
                   [] OTHER -> None,
         session |-> IF name \in {"add_mask_to_history", "undo_mask", "redo_mask",
                                  "reset_mask"}
                     THEN [result |-> "none"] ELSE probe.session]

\* the bounds of a specification: a record L of the commits, the undo calls in
\* a row and the changes of direction one behaviour may hold
Within(L, pr) ==
    /\ pr.n <= L.commits
    /\ pr.undos <= L.undos
    /\ pr.switches <= L.switches

\* one handler of the widget: it leaves the widget as w2
WidgetStep(L, name, w2, starts) ==
    /\ widget' = Quiet(w2)
    /\ probe' = NextProbe(L, name, Committed(w2),
                          Len(widget.history) - 1 - widget.history_idx,
                          w2.ret, Core(widget), Core(w2), starts)
    /\ Within(L, probe')
    /\ UNCHANGED <<roi, editor>>

\* one method of the ROI: it leaves the ROI as r2
RoiStep(L, name, r2, committed) ==
    /\ roi' = r2
    /\ probe' = NextProbe(L, name, committed,
                          Len(roi.mask_edit_history) - 1 - roi.mask_edit_idx,
                          r2.ret, None, None, FALSE)
    /\ Within(L, probe')
    /\ UNCHANGED <<widget, button, editor>>

(* ------------------- inputs -------------------------------------------- *)
ZeroMask == Uniform(ImgW, ImgH, 0)

\* pointer positions of presses, and of moves: inside the image, and beyond
\* its right and bottom edges while a rectangle is dragged
PressPoints == {<<0, 0>>, <<1, 1>>}
MovePoints(w) ==
    IF w.drawing_rect THEN {<<5, 5>>, <<11, 11>>} ELSE PressPoints

\* masks handed to the constructor and to set_mask: of the image's shape or not
GivenMasks == {ZeroMask, Uniform(1, 1, 255)}

\* masks the edge detector and the adaptive threshold may return
ResultMasks ==
    {Uniform(ImgW, ImgH, 255),
     [w |-> ImgW, h |-> ImgH, px |-> [p \in Pix |-> IF p = <<0, 0>> THEN 255 ELSE 0]]}

BrushSizes == {1}

\* parameters of auto_fix_morph: an opening only, a closing only
MorphParams ==
    {[open_k |-> 3, open_iter |-> 1, close_k |-> 3, close_iter |-> 0],
     [open_k |-> 3, open_iter |-> 0, close_k |-> 3, close_iter |-> 1]}

NoOutcome == [raise |-> "no", soft |-> GC_PR_FGD]
NoWatershed == [raise |-> FALSE, fill |-> 1]

\* the outcomes a pointer release may need: those of cv2.grabCut when it is run
ReleaseOutcomes(w) ==
    IF w.drawing_rect \/ (w.drawing /\ w.mode = "grabcut_refine")
    THEN GrabCutOutcomes
    ELSE {NoOutcome}

\* the outcomes run_watershed_segmentation may need: those of cv2.watershed
WatershedRunOutcomes(w) ==
    IF /\ w.watershed_markers # None
       /\ HasLabel(w.watershed_markers, 1)
       /\ HasLabel(w.watershed_markers, 2)
    THEN WatershedOutcomes
    ELSE {NoWatershed}

\* the mask of the n-th commit of a scripted history: every pixel is n
Stamp(n) == Uniform(ImgW, ImgH, n)

\* the script: every ClearEvery-th commit is a clear_mask, the others are
\* set_mask(Stamp(n)); Snap(n) is the snapshot the n-th commit pushes
Clears(n) == n % ClearEvery = 0
Snap(n) == IF Clears(n) THEN ZeroMask ELSE Stamp(n)

(* ------------------- actions of the widget ----------------------------- *)
Press(L, pos, shift) ==
    /\ ~button
    /\ button' = TRUE
    /\ WidgetStep(L, "mousePressEvent", mousePressEvent(widget, pos, shift),
                  widget.mode \in {"draw", "erase"} /\ ~shift)

Move(L, pos) ==
    /\ UNCHANGED button
    /\ WidgetStep(L, "mouseMoveEvent", mouseMoveEvent(widget, pos), FALSE)

Release(L, out) ==
    /\ button
    /\ button' = FALSE
    /\ WidgetStep(L, "mouseReleaseEvent", mouseReleaseEvent(widget, out), FALSE)

Call(L, name, w2) ==
    /\ UNCHANGED button
    /\ WidgetStep(L, name, w2, FALSE)

SetBrushSize(L, size) == Call(L, "set_brush_size", set_brush_size(widget, size))
SetMode(L, mode) == Call(L, "set_mode", set_mode(widget, mode))
EnterGrabcutRect(L) == Call(L, "enter_grabcut_rect_mode", enter_grabcut_rect_mode(widget))
SetGrabcutMarkerMode(L, m) ==
    Call(L, "set_grabcut_marker_mode", set_grabcut_marker_mode(widget, m))
EnterWatershed(L) == Call(L, "enter_watershed_mode", enter_watershed_mode(widget))
SetWatershedMarkerMode(L, m) ==
    Call(L, "set_watershed_marker_mode", set_watershed_marker_mode(widget, m))
FinishGrabcut(L) == Call(L, "finish_grabcut", finish_grabcut(widget))
RunWatershed(L, out) ==
    Call(L, "run_watershed_segmentation", run_watershed_segmentation(widget, out))
SetMask(L, m) == Call(L, "set_mask", set_mask(widget, m))
ClearMask(L) == Call(L, "clear_mask", clear_mask(widget))
Undo(L) == Call(L, "undo", undo(widget))
Redo(L) == Call(L, "redo", redo(widget))
AutoFixMorph(L, params, raise) ==
    Call(L, "auto_fix_morph", auto_fix_morph(widget, params, raise))
EdgeDetectCanny(L, result, raise) ==
    Call(L, "edge_detect_canny", edge_detect_canny(widget, result, raise))
RunAdaptiveThreshold(L, result, raise) ==
    Call(L, "run_adaptive_threshold", run_adaptive_threshold(widget, result, raise))

ResetMaskDialog(L, yes) ==
    Call(L, "MaskEditDialog.reset_mask", MaskEditDialog_reset_mask(widget, yes))

(* ------------------- actions of the ROI -------------------------------- *)
AddMaskToHistory(L, m) ==
    RoiStep(L, "add_mask_to_history", add_mask_to_history(roi, m), TRUE)
UndoMask(L) == RoiStep(L, "undo_mask", undo_mask(roi), FALSE)
RedoMask(L) == RoiStep(L, "redo_mask", redo_mask(roi), FALSE)
ResetMask(L) == RoiStep(L, "reset_mask", reset_mask(roi), FALSE)

(* ------------------- the specifications -------------------------------- *)
InitWith(mask) ==
    /\ widget = MaskEditWidget(mask)
    /\ roi = FrameROI(FitToImage(mask))
    /\ button = FALSE
    /\ probe = InitProbe
    /\ editor = SpriteMaskEditor

Init == \E mask \in GivenMasks : InitWith(mask)

EditLimits ==
    [ghost |-> "stroke", commits |-> MaxCommits, undos |-> 0, switches |-> 0]

SeededLimits ==
    [ghost |-> "none", commits |-> MaxCommits, undos |-> 0, switches |-> 0]

HistoryLimits ==
    [ghost |-> "history", commits |-> MaxHistCommits, undos |-> MaxHistCommits,
     switches |-> MaxSwitch]

\* SpecBrush: the Draw and Erase tools, the one-shot operations, undo and redo
NextBrush ==
    \/ \E pos \in PressPoints, shift \in BOOLEAN : Press(EditLimits, pos, shift)
    \/ \E pos \in MovePoints(widget) : Move(EditLimits, pos)
    \/ \E out \in ReleaseOutcomes(widget) : Release(EditLimits, out)
    \/ \E size \in BrushSizes : SetBrushSize(EditLimits, size)
    \/ \E mode \in {"draw", "erase"} : SetMode(EditLimits, mode)
    \/ \E m \in GivenMasks : SetMask(EditLimits, m)
    \/ ClearMask(EditLimits)
    \/ Undo(EditLimits)
    \/ Redo(EditLimits)
    \/ \E params \in MorphParams, raise \in BOOLEAN : AutoFixMorph(EditLimits, params, raise)
    \/ \E result \in ResultMasks, raise \in BOOLEAN :
           EdgeDetectCanny(EditLimits, result, raise)
    \/ \E result \in ResultMasks, raise \in BOOLEAN :
           RunAdaptiveThreshold(EditLimits, result, raise)
    \/ \E yes \in BOOLEAN : ResetMaskDialog(EditLimits, yes)

SpecBrush == Init /\ [][NextBrush]_vars

\* SpecSeeded: one of the two seeded tools (probe.tool, chosen at the start),
\* among the mode switches, undo and redo.  The rectangle-seeded tool is used
\* with the default brush, the marker-seeded tool with either brush.
SeededTools == {"grabcut", "watershed"}

ToolModes(tool) ==
    IF tool = "grabcut" THEN {"draw", "grabcut_rect", "grabcut_refine"}
    ELSE {"draw", "watershed_mark"}

InitSeeded ==
    \E mask \in GivenMasks, tool \in SeededTools :
        /\ widget = MaskEditWidget(mask)
        /\ roi = FrameROI(FitToImage(mask))
        /\ button = FALSE
        /\ probe = [InitProbe EXCEPT !.tool = tool]
        /\ editor = SpriteMaskEditor

NextSeeded ==
    \/ \E pos \in PressPoints, shift \in BOOLEAN : Press(SeededLimits, pos, shift)
    \/ \E pos \in MovePoints(widget) : Move(SeededLimits, pos)
    \/ \E out \in ReleaseOutcomes(widget) : Release(SeededLimits, out)
    \/ \E mode \in ToolModes(probe.tool) : SetMode(SeededLimits, mode)
    \/ probe.tool = "grabcut" /\ EnterGrabcutRect(SeededLimits)
    \/ \E m \in {"fg", "bg"} :
           probe.tool = "grabcut" /\ SetGrabcutMarkerMode(SeededLimits, m)
    \/ probe.tool = "grabcut" /\ FinishGrabcut(SeededLimits)
    \/ \E size \in BrushSizes :
           probe.tool = "watershed" /\ SetBrushSize(SeededLimits, size)
    \/ probe.tool = "watershed" /\ EnterWatershed(SeededLimits)
    \/ \E m \in {"fg", "bg"} :
           probe.tool = "watershed" /\ SetWatershedMarkerMode(SeededLimits, m)
    \/ \E out \in WatershedRunOutcomes(widget) :
           probe.tool = "watershed" /\ RunWatershed(SeededLimits, out)
    \/ Undo(SeededLimits)
    \/ Redo(SeededLimits)

SpecSeeded == InitSeeded /\ [][NextSeeded]_vars

\* SpecHistory: a scripted history of the widget, the n-th commit pushes Snap(n)
NextHistory ==
    \/ ~Clears(probe.n + 1) /\ SetMask(HistoryLimits, Stamp(probe.n + 1))
    \/ Clears(probe.n + 1) /\ ClearMask(HistoryLimits)
    \/ Undo(HistoryLimits)
    \/ Redo(HistoryLimits)

SpecHistory == Init /\ [][NextHistory]_vars

\* SpecROI: a scripted history of the ROI
NextROI ==
    \/ AddMaskToHistory(HistoryLimits, Stamp(probe.n + 1))
    \/ UndoMask(HistoryLimits)
    \/ RedoMask(HistoryLimits)
    \/ ResetMask(HistoryLimits)

SpecROI == Init /\ [][NextROI]_vars

(* ------------------- the main window: inputs and actions --------------- *)
\* MaskProcessor.set_params(params): the attributes named by params
set_params(self, params) ==
    [k \in DOMAIN self |-> IF k \in DOMAIN params THEN params[k] ELSE self[k]]

\* the sheet loaded, 160 x 120, and the contours found in its mask: two of
\* the same area, one in the bottom right corner of the sheet, one small
Sheet == [w |-> 160, h |-> 120]

CntA == [area |-> 600, rect |-> <<0, 0, 31, 21>>]
CntB == [area |-> 600, rect |-> <<70, 20, 21, 31>>]
CntC == [area |-> 1911, rect |-> <<120, 70, 40, 50>>]
CntD == [area |-> 100, rect |-> <<50, 80, 11, 11>>]

Orders(S) ==
    {l \in UNION {[1..n -> S] : n \in 0..Cardinality(S)} :
        \A i, j \in DOMAIN l : i # j => l[i] # l[j]}

ContourLists ==
    LET all == {l \in Orders({CntA, CntB, CntC}) : Len(l) = 3}
    IN  {<<>>, <<CntB>>} \cup all \cup {<<CntD>> \o l : l \in all}

\* the parameters a stored preset gives the processor
StoredParams == {<<>>, [min_area |-> 0], [max_area |-> 1000]}

\* pad, max_extract, out_width, out_height of the spin boxes
ParamPanels ==
    {<<4, 12, 128, 128>>, <<0, 12, 128, 128>>, <<4, 1, 128, 128>>, <<0, 2, 40, 50>>}

AreaRanges ==
    {[lo |-> 500, hi |-> 1000000], [lo |-> 600, hi |-> 1911], [lo |-> 0, hi |-> 700]}

AspectRanges ==
    {[lo |-> Frac(0, 1), hi |-> Frac(99, 1)], [lo |-> Frac(80, 100), hi |-> Frac(99, 1)]}

EditorStep(e2) ==
    /\ editor' = e2
    /\ UNCHANGED <<widget, roi, button, probe>>

RefreshRoisOnly == EditorStep(refresh_rois_only(editor))

OnParamChange(panel) ==
    EditorStep(on_param_change(editor, panel[1], panel[2], panel[3], panel[4]))

OnSortChange(currentIndex) == EditorStep(on_sort_change(editor, currentIndex))

\* currentIndexChanged: the index is another one than before
OnSortOrderChange(currentIndex) ==
    /\ currentIndex # editor.sort_order_combo
    /\ EditorStep(on_sort_order_change(editor, currentIndex))

OnFilterChange(area_range, aspect_range) ==
    EditorStep(on_filter_change(editor, area_range, aspect_range))

\* the sheet is loaded and its mask generated, the frames not yet extracted
InitExtract ==
    /\ \E mask \in {ZeroMask}, found \in ContourLists, params \in StoredParams :
        /\ widget = MaskEditWidget(mask)
        /\ roi = FrameROI(FitToImage(mask))
        /\ editor = [SpriteMaskEditor EXCEPT
                        !.img_np = Sheet, !.found = found,
                        !.naming_template = StoredTemplate,
                        !.naming_input = <<StoredTemplate>>,
                        !.processor = set_params(MaskProcessor, params)]
    /\ button = FALSE
    /\ probe = InitProbe

NextExtract ==
    \/ RefreshRoisOnly
    \/ \E panel \in ParamPanels : OnParamChange(panel)
    \/ \E currentIndex \in 0..7 : OnSortChange(currentIndex)
    \/ \E currentIndex \in 0..1 : OnSortOrderChange(currentIndex)
    \/ \E area_range \in AreaRanges, aspect_range \in AspectRanges :
            OnFilterChange(area_range, aspect_range)

SpecExtract == InitExtract /\ [][NextExtract]_vars

\* the pieces typed or inserted into the line edit of the naming template:
\* [X], [X:03d], [X:Q] (no such format), [area:d] (no such format for a float),
\* [Q] and [Q:d] (no such placeholder), and plain text
NamingPieces ==
    {<<"[", "X", "]">>, <<"[", "X", ":", "0", "3", "d", "]">>,
     <<"[", "X", ":", "Q", "]">>, <<"[", "u9762", "u79ef", ":", "d", "]">>,
     <<"[", "Q", "]">>, <<"[", "Q", ":", "d", "]">>,
     <<"[">>, <<"a">>, <<".">>, <<"/">>,
     png, <<".", "P", "N", "G">>, <<".", "j", "p", "g">>}

\* textChanged: the piece is typed at the end of the line edit
OnNamingChange(piece) ==
    /\ Len(editor.naming_input) < MaxPieces
    /\ EditorStep(on_naming_change([editor EXCEPT !.naming_input = Append(@, piece)]))

\* one frame was extracted from the sheet and the line edit has been emptied
InitRender ==
    /\ \E mask \in {ZeroMask}, cnt \in {CntB, CntC} :
        /\ widget = MaskEditWidget(mask)
        /\ roi = FrameROI(FitToImage(mask))
        /\ editor = on_naming_change(
                        [_extract_and_update_rois(
                            [SpriteMaskEditor EXCEPT !.img_np = Sheet, !.found = <<cnt>>])
                         EXCEPT !.naming_input = <<>>])
    /\ button = FALSE
    /\ probe = InitProbe

NextRender == \E piece \in NamingPieces : OnNamingChange(piece)

SpecRender == InitRender /\ [][NextRender]_vars

(* ------------------- the processor on a small image --------------------- *)
\* the images of TileSide x TileSide pixels in two colours, 30 apart on each
\* channel
TileColours == {<<0, 0, 0>>, <<30, 30, 30>>}

Tiles ==
    {[w |-> TileSide, h |-> TileSide, px |-> px] :
        px \in [PixOf(TileSide, TileSide) -> TileColours]}

\* the parameters of the mask in the stored presets: color_thresh,
\* kernel_size, close_iter, open_iter
MaskPresets ==
    {[color_thresh |-> 60, kernel_size |-> 5, close_iter |-> 2, open_iter |-> 1],
     [color_thresh |-> 40, kernel_size |-> 3, close_iter |-> 0, open_iter |-> 1],
     [color_thresh |-> 40, kernel_size |-> 3, close_iter |-> 1, open_iter |-> 0],
     [color_thresh |-> 40, kernel_size |-> 1, close_iter |-> 0, open_iter |-> 0]}

\* processor.set_params(params)
SetParams(params) ==
    EditorStep([editor EXCEPT !.processor = set_params(@, params)])

\* self.mask = self.processor.gen_mask(self.img_np)
GenMask ==
    EditorStep([editor EXCEPT !.mask = gen_mask(editor.processor, editor.img_np)])

\* an image is loaded, its mask not yet generated
InitMask ==
    /\ \E mask \in {ZeroMask}, tile \in Tiles :
        /\ widget = MaskEditWidget(mask)
        /\ roi = FrameROI(FitToImage(mask))
        /\ editor = [SpriteMaskEditor EXCEPT !.img_np = tile]
    /\ button = FALSE
    /\ probe = InitProbe

NextMask ==
    \/ \E params \in MaskPresets : SetParams(params)
    \/ GenMask

SpecMask == InitMask /\ [][NextMask]_vars

(* ------------------- properties of the history (SpecHistory) ----------- *)
\* C1: after any sequence of commits, undo and redo, the history of the editor
\* holds between 1 and 32 snapshots and 0 <= history_idx <= len(history) - 1.
C1_HistoryWithinBounds ==
    /\ Len(widget.history) >= 1
    /\ Len(widget.history) <= 32
    /\ 0 <= widget.history_idx
    /\ widget.history_idx <= Len(widget.history) - 1

\* the cap has evicted snapshots, and the pointer has been moved back since
C1_Witness ==
    /\ probe.n > MAX_HISTORY_SIZE
    /\ Len(widget.history) = MAX_HISTORY_SIZE
    /\ widget.history_idx < Len(widget.history) - 1

\* C2: a commit made while history_idx < len(history) - 1 discards every
\* snapshot after the pointer before it appends the new one; right after any
\* commit history_idx = len(history) - 1, and redo returns False and changes
\* nothing.
C2_CommitTruncatesRedo ==
    [][probe'.n > probe.n =>
         /\ widget.history_idx < Len(widget.history) - 1 =>
                widget'.history =
                    Append(SubSeq(widget.history, 1, widget.history_idx + 1), widget'.mask)
         /\ widget'.history_idx = Len(widget'.history) - 1
         /\ redo(widget').ret = "False"
         /\ Quiet(redo(widget')) = widget']_vars

\* a commit has just dropped redo entries
C2_Witness ==
    /\ probe.kind = "commit"
    /\ probe.dropped > 1
    /\ widget.history_idx = Len(widget.history) - 1

\* C3: after N > 32 commits in a row the history holds exactly the snapshots
\* of the last 32 of them, and after N - 1 (or more) undo calls the mask is the
\* oldest retained snapshot, that of commit N - 31, not the initial mask.
C3_LastSnapshotsRetained ==
    (probe.consec > 32 /\ probe.undos >= 0) =>
        /\ widget.history = [i \in 1 .. 32 |-> Snap(probe.n - 32 + i)]
        /\ probe.undos >= probe.consec - 1 =>
               /\ widget.history_idx = 0
               /\ widget.mask = widget.history[1]
               /\ widget.mask = Snap(probe.n - 31)

\* N commits in a row, then N - 1 undo calls
C3_Witness ==
    /\ probe.consec > MAX_HISTORY_SIZE
    /\ probe.undos = probe.consec - 1
    /\ widget.mask = Snap(probe.n - 31)

(* ------------------- properties of the ROI history (SpecROI) ----------- *)
\* C4: the mask history of a ROI never holds more than 32 snapshots, and its
\* pointer stays inside [0, len - 1].
C4_RoiHistoryCapped ==
    /\ Len(roi.mask_edit_history) <= 32
    /\ 0 <= roi.mask_edit_idx
    /\ roi.mask_edit_idx <= Len(roi.mask_edit_history) - 1

(* ------------------- properties of the strokes (SpecBrush) ------------- *)
\* C5: from a state in which undo succeeds, undo, redo, undo made in a row
\* leave the mask, the history pointer and the list of snapshots as they were
\* after the first undo.
C5_UndoRedoUndo ==
    probe.uru = 3 => Core(widget) = probe.saved

\* undo, redo, undo have been made in a row over two different snapshots
C5_Witness ==
    /\ probe.uru = 3
    /\ widget.history_idx = 0
    /\ widget.mask = widget.history[1]
    /\ widget.history[1] # widget.history[2]

\* C6: a full stroke in Draw or Erase mode followed at once by undo restores
\* the mask that was present just before the press.
C6_StrokeUndoRestores ==
    probe.stroke = "undone" => widget.mask = probe.pre.core.mask

\* C7: a stroke in Draw or Erase mode (press, drag segments, release, nothing
\* in between) makes exactly one commit, at the release; the press and the
\* drag segments change neither the history nor its pointer.
C7_StrokeCommitsOnce ==
    /\ probe.stroke = "pressed" =>
           /\ widget.history = probe.pre.core.history
           /\ widget.history_idx = probe.pre.core.history_idx
           /\ probe.n = probe.pre.n
    /\ probe.stroke = "released" =>
           /\ probe.n = probe.pre.n + 1
           /\ probe.by = "mouseReleaseEvent"
           /\ widget.history_idx = Len(widget.history) - 1
           /\ widget.history[Len(widget.history)] = widget.mask
           /\ Len(probe.pre.core.history) < MAX_HISTORY_SIZE =>
                  widget.history =
                      Append(SubSeq(probe.pre.core.history, 1,
                                    probe.pre.core.history_idx + 1), widget.mask)

\* a stroke that changed the mask has been released
C7_Witness ==
    /\ probe.stroke = "released"
    /\ widget.mask # probe.pre.core.mask
    /\ Len(widget.history) = Len(probe.pre.core.history) + 1

(* ------------------- properties of the seeded tools (SpecSeeded) ------- *)
\* handler result w2 leaves the mask, the history and its pointer of w1 as
\* they are and emits no mask_edited
LeavesCommitted(w1, w2) ==
    /\ Core(w2) = Core(w1)
    /\ w2.mask_edited = <<>>

\* C8: in grabcut_refine and in watershed_mark, press, drag and release leave
\* the mask, the history and the history pointer unchanged and emit no
\* mask_edited: they write only to gc_mask / watershed_markers.
C8_SeededStrokesLeaveMask ==
    widget.mode \in {"grabcut_refine", "watershed_mark"} =>
        /\ ~button =>
               \A pos \in PressPoints, shift \in BOOLEAN :
                   LeavesCommitted(widget, mousePressEvent(widget, pos, shift))
        /\ \A pos \in MovePoints(widget) :
               LeavesCommitted(widget, mouseMoveEvent(widget, pos))
        /\ button =>
               \A out \in GrabCutOutcomes :
                   LeavesCommitted(widget, mouseReleaseEvent(widget, out))

\* a refine stroke is under way and has painted a hard foreground label
C8_Witness ==
    /\ widget.mode = "grabcut_refine"
    /\ button
    /\ widget.drawing
    /\ widget.gc_mask # None
    /\ \E p \in Pix : widget.gc_mask.px[p] = GC_FGD
    /\ \E p \in Pix : widget.mask.px[p] = 0

\* C9: finish_grabcut in grabcut_refine with an initialised scratch buffer
\* appends exactly one history entry, 255 where the label is foreground or
\* probable foreground and 0 elsewhere, clears gc_mask, the models, the
\* rectangle and gc_initialized, and leaves the editor in Draw mode.
C9_FinishCommitsCollapsedLabels ==
    (widget.mode = "grabcut_refine" /\ widget.gc_initialized /\ widget.gc_mask # None) =>
        LET w2 == finish_grabcut(widget)
            collapsed ==
                [w |-> ImgW, h |-> ImgH,
                 px |-> [p \in Pix |-> IF widget.gc_mask.px[p] \in {1, 3} THEN 255 ELSE 0]]
        IN  /\ w2.history =
                   Append(SubSeq(widget.history, 1, widget.history_idx + 1), collapsed)
            /\ w2.history_idx = Len(w2.history) - 1
            /\ w2.mask = collapsed
            /\ w2.mask_edited = <<collapsed>>
            /\ w2.gc_mask = None
            /\ w2.gc_bgd_model = NoModel
            /\ w2.gc_fgd_model = NoModel
            /\ w2.grabcut_rect = None
            /\ ~w2.gc_initialized
            /\ w2.mode = "draw"

\* finish_grabcut has committed a mask with foreground and background pixels
C9_Witness ==
    /\ probe.by = "finish_grabcut"
    /\ widget.mode = "draw"
    /\ widget.gc_mask = None
    /\ widget.history_idx = Len(widget.history) - 1
    /\ widget.history[Len(widget.history)] = widget.mask
    /\ \E p \in Pix : widget.mask.px[p] = 255
    /\ \E p \in Pix : widget.mask.px[p] = 0

\* what the release of the left button does to w, for every outcome of
\* cv2.grabCut: _run_grabcut_initial runs if and only if the rectangle is wider
\* and higher than 5; a pass that ran with success leaves grabcut_refine with
\* an initialised scratch buffer; a rectangle that is too small leaves the
\* mode, the mask, the history, gc_mask, the models and gc_initialized alone
ReleaseRunsInitialPass(w) ==
    \A out \in GrabCutOutcomes :
        LET w2 == mouseReleaseEvent(w, out)
            big == /\ w.grabcut_rect # None
                   /\ RectWidth(w.grabcut_rect) > 5
                   /\ RectHeight(w.grabcut_rect) > 5
        IN  /\ Ran(w2, "_run_grabcut_initial") <=> big
            /\ (Ran(w2, "grabCut") /\ out.raise = "no") =>
                   /\ w2.mode = "grabcut_refine"
                   /\ w2.gc_initialized
                   /\ w2.gc_mask # None
            /\ ~big =>
                   /\ w2.mode = "grabcut_rect"
                   /\ LeavesCommitted(w, w2)
                   /\ w2.gc_mask = w.gc_mask
                   /\ w2.gc_bgd_model = w.gc_bgd_model
                   /\ w2.gc_fgd_model = w.gc_fgd_model
                   /\ w2.gc_initialized = w.gc_initialized

C11_UndoRedoLeaveRefine ==
    widget.mode = "grabcut_refine" =>
        \A w2 \in {undo(widget), redo(widget)} :
            /\ w2.mode = "draw"
            /\ w2.gc_mask = None
            /\ ~w2.gc_initialized

(* ------------------- marker segmentation (SpecSeeded) ------------------ *)
\* both seed labels are in the label map of w
BothSeeds(w) ==
    /\ w.watershed_markers # None
    /\ HasLabel(w.watershed_markers, 1)
    /\ HasLabel(w.watershed_markers, 2)

\* C12: run_watershed_segmentation invoked in watershed_mark with both seed
\* labels in the label map leaves the editor in Draw mode with the label map
\* discarded, whether cv2.watershed returns or raises.
C12_SegmentationReturnsToDraw ==
    (widget.mode = "watershed_mark" /\ BothSeeds(widget)) =>
        \A out \in WatershedOutcomes :
            LET w2 == run_watershed_segmentation(widget, out)
            IN  /\ w2.mode = "draw"
                /\ w2.watershed_markers = None

\* C12 for every invocation in watershed_mark, the seeds sufficient or not:
\* without both labels the call returns before the try block and the editor
\* stays in watershed_mark with its label map.
C12_EveryInvocationReturnsToDraw ==
    widget.mode = "watershed_mark" =>
        \A out \in WatershedOutcomes :
            LET w2 == run_watershed_segmentation(widget, out)
            IN  /\ w2.mode = "draw"
                /\ w2.watershed_markers = None

\* a segmentation has committed its mask and returned to Draw
C12_Witness ==
    /\ probe.by = "run_watershed_segmentation"
    /\ widget.mode = "draw"
    /\ widget.watershed_markers = None
    /\ widget.history_idx = Len(widget.history) - 1

\* C13: run_watershed_segmentation invoked on a label map that lacks label 1
\* or lacks label 2 changes nothing: the mask, the history and its pointer, the
\* label map, the mode and every other field are as before, and no
\* mask_edited is emitted.
C13_InsufficientSeedsMutateNothing ==
    (widget.watershed_markers # None /\ ~BothSeeds(widget)) =>
        \A out \in WatershedOutcomes :
            LET w2 == run_watershed_segmentation(widget, out)
            IN  /\ Quiet(w2) = widget
                /\ w2.mask_edited = <<>>
                /\ ~Ran(w2, "watershed")
                /\ ~Ran(w2, "push_history")

\* a label map with a foreground seed and no background seed, over a mask that
\* the segmentation would change
C13_Witness ==
    /\ widget.mode = "watershed_mark"
    /\ widget.watershed_markers # None
    /\ HasLabel(widget.watershed_markers, 1)
    /\ ~HasLabel(widget.watershed_markers, 2)
    /\ \E p \in Pix : widget.watershed_markers.px[p] = 0
    /\ \E p \in Pix : widget.mask.px[p] = 0

(* ------------------- failures of the algorithms (SpecSeeded) ----------- *)
\* C14: when cv2.grabCut raises in the refinement pass run by the release of
\* a refine stroke, the editor unwinds to Draw mode and discards gc_mask,
\* and the mask and the history are unchanged.
C14_RefineFailureUnwinds ==
    (/\ widget.mode = "grabcut_refine" /\ button /\ widget.drawing
     /\ ~widget.panning /\ widget.gc_initialized /\ widget.gc_mask # None) =>
        \A out \in {o \in GrabCutOutcomes : o.raise # "no"} :
            LET w2 == mouseReleaseEvent(widget, out)
            IN  /\ w2.mode = "draw"
                /\ w2.gc_mask = None
                /\ LeavesCommitted(widget, w2)

\* C15: when, on the release of an adequate rectangle in grabcut_rect, the
\* conversion of the rectangle fails or cv2.grabCut raises, the editor ends in
\* Draw mode with the mask, the history and its pointer unchanged and with no
\* initialised scratch buffer.
C15_InitialFailureAborts ==
    (/\ widget.mode = "grabcut_rect" /\ button /\ widget.drawing_rect
     /\ RectAdequate(widget.grabcut_rect)) =>
        \A out \in GrabCutOutcomes :
            LET w2 == mouseReleaseEvent(widget, out)
                failed == \/ _rect_widget_to_image(widget, widget.grabcut_rect) = None
                          \/ out.raise # "no"
            IN  failed =>
                    /\ w2.mode = "draw"
                    /\ LeavesCommitted(widget, w2)
                    /\ ~w2.gc_initialized

\* the state the code leaves after set_mode(s, m), but for the logs
AfterSetMode(s, m) == Quiet(set_mode(s, m))

\* C16: when cv2.watershed raises in run_watershed_segmentation (both seed
\* labels present), the mask, the history and its pointer are as before the
\* call and no mask_edited is emitted; the call only discards the label map
\* on its way back to Draw mode.
C16_WatershedFailureKeepsMask ==
    BothSeeds(widget) =>
        \A out \in {o \in WatershedOutcomes : o.raise} :
            LET w2 == run_watershed_segmentation(widget, out)
            IN  /\ LeavesCommitted(widget, w2)
                /\ ~Ran(w2, "push_history")
                /\ Quiet(w2) = [AfterSetMode(widget, "draw") EXCEPT !.watershed_markers = None]

\* both seeds are marked, over unmarked pixels and a mask that the
\* segmentation would change
C16_Witness ==
    /\ widget.mode = "watershed_mark"
    /\ BothSeeds(widget)
    /\ \E p \in Pix : widget.watershed_markers.px[p] = 0
    /\ \E p \in Pix : widget.mask.px[p] = 255 /\ widget.watershed_markers.px[p] = 2

(* ------------------- failures of the one-shot operations (SpecBrush) --- *)
\* C17: when auto_fix_morph, edge_detect_canny or run_adaptive_threshold fails
\* internally, the mask, the history, its pointer and the mode are unchanged
\* (as is every other field) and no mask_edited is emitted.
C17_OneShotFailureChangesNothing ==
    \A w2 \in {auto_fix_morph(widget, params, TRUE) : params \in MorphParams}
              \cup {edge_detect_canny(widget, result, TRUE) : result \in ResultMasks}
              \cup {run_adaptive_threshold(widget, result, TRUE) : result \in ResultMasks} :
        /\ LeavesCommitted(widget, w2)
        /\ w2.mode = widget.mode
        /\ Quiet(w2) = widget
        /\ ~Ran(w2, "push_history")

\* a mask, not yet committed, that every one-shot operation would have changed
C17_Witness ==
    /\ widget.mask # widget.history[widget.history_idx + 1]
    /\ \A params \in MorphParams : auto_fix_morph(widget, params, FALSE).mask # widget.mask
    /\ \A result \in ResultMasks : edge_detect_canny(widget, result, FALSE).mask # widget.mask

(* ------------------- the shape of the masks (SpecSeeded) --------------- *)
\* masks of another shape than the image's
ForeignMasks ==
    {Uniform(1, 1, 255),
     Uniform(ImgW + 1, ImgH, 0),
     [w |-> 2 * ImgW, h |-> 2 * ImgH,
      px |-> [p \in PixOf(2 * ImgW, 2 * ImgH) |-> IF p[1] < ImgW THEN 255 ELSE 0]]}

HasImageShape(m) == m.w = ImgW /\ m.h = ImgH /\ DOMAIN m.px = Pix

\* the mask and every snapshot of w have the shape of the image
ShapesKept(w) ==
    /\ HasImageShape(w.mask)
    /\ \A i \in DOMAIN w.history : HasImageShape(w.history[i])

\* C18: the mask and every history snapshot always have the height and the
\* width of the base image: the constructor and set_mask resample a mask of
\* another shape before storing it, and strokes, undo, redo, finish_grabcut,
\* run_watershed_segmentation and the one-shot operations store no mask of
\* another shape.
C18_MasksHaveImageShape ==
    /\ ShapesKept(widget)
    /\ \A m \in ForeignMasks :
           /\ ShapesKept(MaskEditWidget(m))
           /\ ShapesKept(set_mask(widget, m))
    /\ \A params \in MorphParams : ShapesKept(auto_fix_morph(widget, params, FALSE))
    /\ \A result \in ResultMasks :
           /\ ShapesKept(edge_detect_canny(widget, result, FALSE))
           /\ ShapesKept(run_adaptive_threshold(widget, result, FALSE))
    /\ ShapesKept(clear_mask(widget))

\* the editor was opened with a 1 x 1 mask and finish_grabcut has committed
C18_Witness ==
    /\ widget.history[1] = Uniform(ImgW, ImgH, 255)
    /\ Len(widget.history) = 2
    /\ probe.by = "finish_grabcut"
    /\ HasImageShape(widget.history[2])

(* ------------------- reset (SpecBrush) --------------------------------- *)
\* C19: the reset operation restores the original mask: the Reset action of
\* the dialog leaves the mask the editor was opened with, and
\* FrameROI.reset_mask leaves the first snapshot of the ROI's history.
C19_ResetRestoresOriginal ==
    /\ MaskEditDialog_reset_mask(widget, TRUE).mask = widget.parent_dialog.original_mask
    /\ reset_mask(roi).mask = roi.mask_edit_history[1]

(* ------------------- the mask_edited signal (SpecSeeded) --------------- *)
\* what the handlers that can commit leave of w, for each of their inputs
CommitResults(w) ==
    {mouseReleaseEvent(w, out) : out \in GrabCutOutcomes}
    \cup {set_mask(w, m) : m \in GivenMasks}
    \cup {clear_mask(w), finish_grabcut(w)}
    \cup {run_watershed_segmentation(w, out) : out \in WatershedOutcomes}
    \cup {auto_fix_morph(w, params, FALSE) : params \in MorphParams}
    \cup {edge_detect_canny(w, result, FALSE) : result \in ResultMasks}
    \cup {run_adaptive_threshold(w, result, FALSE) : result \in ResultMasks}
    \cup {MaskEditDialog_reset_mask(w, TRUE)}

\* the number of calls of push_history in the handler that left w
Pushes(w) == Cardinality({i \in DOMAIN w.calls : w.calls[i] = "push_history"})

\* exactly one mask_edited was emitted, with the snapshot under the pointer
EmittedCurrent(w) ==
    /\ Len(w.mask_edited) = 1
    /\ w.mask_edited[1] = w.history[w.history_idx + 1]

\* C20: every history commit and every successful undo or redo emits exactly
\* one mask_edited, whose payload is the snapshot at history[history_idx].
C20_MaskEditedCarriesSnapshot ==
    /\ \A w2 \in CommitResults(widget) :
           Committed(w2) => (Pushes(w2) = 1 /\ EmittedCurrent(w2))
    /\ \A w2 \in {undo(widget), redo(widget)} :
           w2.ret = "True" => EmittedCurrent(w2)

\* finish_grabcut has committed, and an undo from here emits a mask that is
\* not the current one
C20_Witness ==
    /\ probe.by = "finish_grabcut"
    /\ widget.history_idx > 0
    /\ widget.history[widget.history_idx] # widget.mask
    /\ undo(widget).ret = "True"

(* ------------------- the grabcut_mode_changed signal (SpecSeeded) ------ *)
\* C21: after any sequence of operations the payload of the latest
\* grabcut_mode_changed (False while none was emitted) is True exactly when
\* the mode is grabcut_refine.
C21_ModeChangedTracksRefine ==
    widget.gc_buttons <=> (widget.mode = "grabcut_refine")

\* a refine session was shown, finished with a commit and hidden again
C21_Witness ==
    /\ probe.by = "finish_grabcut"
    /\ widget.mode = "draw"
    /\ ~widget.gc_buttons


(* ------------------- extraction of the frames (SpecExtract) ------------- *)
\* the ROIs lie within the bounds of the processor self
WithinExtractBounds(self, rois) ==
    /\ Len(rois) <= self.max_extract
    /\ \A i \in DOMAIN rois :
            self.min_area <= rois[i].area /\ rois[i].area <= self.max_area

\* C22: extract_rois never returns more than max_extract ROIs, and the area of
\* every ROI it returns lies in [min_area, max_area]: this holds of the ROIs it
\* returns for the sheet and the parameters of any state, and of the ROIs the
\* window keeps from its latest extraction.
C22_ExtractionBounded ==
    /\ WithinExtractBounds(editor.processor,
                           extract_rois(editor.processor, editor.img_np, editor.found))
    /\ WithinExtractBounds(editor.processor, editor._all_rois)

\* more contours than max_extract, one of them outside the area bounds, and as
\* many ROIs extracted as max_extract allows
C22_Witness ==
    /\ Len(editor.found) > editor.processor.max_extract
    /\ Len(editor._all_rois) = editor.processor.max_extract
    /\ \E i \in DOMAIN editor.found :
            editor.found[i].area < editor.processor.min_area

\* C23: the idx values of the ROIs of one extraction are 1, 2, ..., k in output
\* order, and sort_rois and filter_rois change no field of any ROI: every ROI
\* the window shows after filtering and sorting is, field by field, one of the
\* ROIs extracted.
C23_IndexAssignedOnce ==
    /\ \A i \in DOMAIN editor._all_rois : editor._all_rois[i].idx = i
    /\ \A i \in DOMAIN editor.rois :
            \E j \in DOMAIN editor._all_rois : editor.rois[i] = editor._all_rois[j]

\* some ROI was filtered out and the others are shown against their idx order
C23_Witness ==
    /\ Len(editor.rois) >= 2
    /\ Len(editor.rois) < Len(editor._all_rois)
    /\ editor.rois[1].idx > editor.rois[2].idx

\* the ROI r is the bounding rectangle of the contour cnt, expanded by pad on
\* its four sides and clipped to the image
ExpandedAndClipped(r, cnt, pad, img_np) ==
    /\ r.x = Max(0, cnt.rect[1] - pad)
    /\ r.y = Max(0, cnt.rect[2] - pad)
    /\ r.x + r.w = Min(img_np.w, cnt.rect[1] + cnt.rect[3] + pad)
    /\ r.y + r.h = Min(img_np.h, cnt.rect[2] + cnt.rect[4] + pad)

\* C24: the bounding box (x, y, w, h) of every ROI extract_rois returns is the
\* bounding rectangle of its component expanded by pad pixels on each of its
\* four sides and clipped to the image.
C24_BoxIsPaddedAndClipped ==
    \A i \in DOMAIN editor._all_rois :
        \E k \in DOMAIN editor.found :
            /\ editor.found[k].area = editor._all_rois[i].area
            /\ ExpandedAndClipped(editor._all_rois[i], editor.found[k],
                                  editor.processor.pad, editor.img_np)

\* C25: the mask of every ROI extract_rois returns has the height and the width
\* of the image of that ROI (the out_height x out_width canvas).
C25_MaskHasShapeOfImage ==
    \A i \in DOMAIN editor._all_rois :
        /\ editor._all_rois[i].mask.w = editor._all_rois[i].img.w
        /\ editor._all_rois[i].mask.h = editor._all_rois[i].img.h

(* ------------------- sorting and filtering (SpecExtract) --------------- *)
SortKeys == {"idx", "area", "x", "y", "w", "h", "aspect_ratio"}

\* out holds the ROIs of rois, each once
IsPermutation(out, rois) ==
    /\ Len(out) = Len(rois)
    /\ \A i \in DOMAIN rois : \E j \in DOMAIN out : out[j] = rois[i]

\* out is in the order of the key `by`, descending when reverse
Ordered(out, by, reverse) ==
    \A i, j \in DOMAIN out :
        i < j => IF reverse THEN FracLeq(SortKey(out[j], by), SortKey(out[i], by))
                 ELSE FracLeq(SortKey(out[i], by), SortKey(out[j], by))

\* C26: sort_rois with by = 'idx' returns the ROIs in ascending idx order
\* whether reverse is True or False; for every other key it returns a
\* permutation of its input in the order of that key, in the direction asked
\* for.  This holds of the ROIs extracted and of the ROIs shown, for every key
\* and direction, and the ROIs shown are in the order of the window's key.
C26_SortOrdersByKey ==
    /\ \A rois \in {editor._all_rois, editor.rois}, by \in SortKeys, reverse \in BOOLEAN :
            LET out == sort_rois(rois, by, reverse)
            IN  /\ IsPermutation(out, rois)
                /\ Ordered(out, by, IF by = "idx" THEN FALSE ELSE reverse)
    /\ Ordered(editor.rois, editor.sort_by,
               IF editor.sort_by = "idx" THEN FALSE ELSE editor.sort_reverse)

\* three ROIs are shown by descending x, which is not their idx order, and
\* sort_rois by idx with reverse puts them back in ascending idx order
C26_Witness ==
    /\ editor.sort_by = "x" /\ editor.sort_reverse
    /\ Len(editor.rois) >= 3
    /\ \E i \in DOMAIN editor.rois : editor.rois[i].idx # i
    /\ \A i, j \in DOMAIN editor.rois : i < j => editor.rois[i].x > editor.rois[j].x
    /\ sort_rois(editor.rois, "idx", TRUE) # editor.rois
    /\ sort_rois(editor.rois, "idx", TRUE) = sort_rois(editor.rois, "idx", FALSE)

\* ranges given to filter_rois for x and y
CoordRanges == {None, [lo |-> 0, hi |-> 70], [lo |-> 16, hi |-> 116]}

Between(range, v) == range = None \/ (range.lo <= v /\ v <= range.hi)

FracBetween(range, v) == range = None \/ (FracLeq(range.lo, v) /\ FracLeq(v, range.hi))

\* out holds, in the order of rois, exactly the ROIs of rois that keep(_) holds of
KeepsExactly(out, rois, keep(_)) ==
    /\ \A j \in DOMAIN out : keep(out[j]) /\ \E i \in DOMAIN rois : rois[i] = out[j]
    /\ \A i \in DOMAIN rois : keep(rois[i]) => \E j \in DOMAIN out : out[j] = rois[i]
    /\ \A j, k \in DOMAIN out :
            j < k => \E a, b \in DOMAIN rois : a < b /\ rois[a] = out[j] /\ rois[b] = out[k]

\* C27: filter_rois returns, in input order, exactly the input ROIs whose area,
\* aspect_ratio, x and y lie within the inclusive bounds of every range
\* supplied; a range not supplied imposes no constraint.  This holds of the
\* ROIs extracted, for every choice of the four ranges.
C27_FilterKeepsInclusiveRanges ==
    \A area_range \in AreaRanges \cup {None}, aspect_range \in AspectRanges \cup {None},
          x_range \in CoordRanges, y_range \in CoordRanges :
            LET keep(r) == /\ Between(area_range, r.area)
                           /\ FracBetween(aspect_range, r.aspect_ratio)
                           /\ Between(x_range, r.x)
                           /\ Between(y_range, r.y)
            IN  KeepsExactly(filter_rois(editor._all_rois, area_range, aspect_range,
                                         x_range, y_range),
                             editor._all_rois, keep)

\* the ROIs shown are those filter_rois keeps for the ranges of the window: a
\* ROI whose area equals the lower bound and one whose area equals the upper
\* bound are among them, and one whose aspect ratio equals its lower bound, and
\* another ROI was filtered out
C27_Witness ==
    /\ IsPermutation(editor.rois, filter_rois(editor._all_rois, editor.area_range,
                                              editor.aspect_range, None, None))
    /\ \E i \in DOMAIN editor.rois : editor.rois[i].area = editor.area_range.lo
    /\ \E i \in DOMAIN editor.rois : editor.rois[i].area = editor.area_range.hi
    /\ \E i \in DOMAIN editor.rois :
            FracEq(editor.rois[i].aspect_ratio, editor.aspect_range.lo)
    /\ Len(editor.rois) < Len(editor._all_rois)


(* ------------------- naming of the files (SpecRender) ------------------- *)
\* what the claim has a match replaced by: the formatted value of a recognised
\* placeholder, the plain string value when its format is invalid for the
\* value, the placeholder itself when it is not recognised
Substitute(match, r) ==
    LET key == <<"[">> \o match.name_key \o <<"]">>
    IN  IF key \notin DOMAIN PLACEHOLDER_MAP THEN match.placeholder
        ELSE LET value == getattr(r, PLACEHOLDER_MAP[key])
             IN  IF match.format_spec = <<>> THEN str(value)
                 ELSE IF format(value, match.format_spec).raised THEN str(value)
                      ELSE format(value, match.format_spec).text

\* the template from s[i] on, each match replaced by Substitute
RECURSIVE SubstituteEach(_, _, _, _)
SubstituteEach(s, i, matches, r) ==
    IF matches = <<>> THEN SubSeq(s, i, Len(s))
    ELSE SubSeq(s, i, Head(matches).last - Len(Head(matches).placeholder))
         \o Substitute(Head(matches), r)
         \o SubstituteEach(s, Head(matches).last + 1, Tail(matches), r)

\* C28: render_filename never raises; a recognised placeholder whose format
\* spec is invalid for the value of its field is replaced by the plain string
\* value of the field, and an unrecognised bracketed placeholder is left in
\* the output unsubstituted: the name previewed is the template with each
\* placeholder replaced in this way, then sanitised and given its extension.
C28_PlaceholdersFallBack ==
    editor.naming_preview =
        ensure_png(sanitize(SubstituteEach(editor.naming_template, 1,
                                placeholder_pattern_finditer(editor.naming_template, 1),
                                editor.rois[1])))

\* the name after the substitutions, sanitised, before its extension is seen to
RenderedName(e) ==
    sanitize(render_placeholders(e.naming_template,
                                 placeholder_pattern_finditer(e.naming_template, 1),
                                 e.rois[1]))

NoInvalidChars(name) == \A i \in DOMAIN name : name[i] \notin invalid_chars

\* C29: the name render_filename returns holds none of the characters
\* \ / : * ? " < > | and ends with '.png' up to the case of its letters; it
\* ends with '.png' itself unless the rendered name already ended with '.png'
\* in another case of letters, which is then returned as it is.
C29_SanitisedWithPngSuffix ==
    /\ NoInvalidChars(editor.naming_preview)
    /\ endswith(str_lower(editor.naming_preview), png)
    /\ ~endswith(editor.naming_preview, png) =>
            /\ editor.naming_preview = RenderedName(editor)
            /\ splitext(RenderedName(editor))[2] # <<>>

\* C29 as stated: the name holds none of the invalid characters and always
\* ends with the suffix '.png'.
C29_AlwaysEndsWithPng ==
    /\ NoInvalidChars(editor.naming_preview)
    /\ endswith(editor.naming_preview, png)

\* a template with a path separator, a colon in an unrecognised placeholder and
\* the extension .jpg: the name has them replaced
C29_Witness ==
    /\ editor.naming_template = <<"/", "[", "Q", ":", "d", "]", ".", "j", "p", "g">>
    /\ editor.naming_preview = <<"_", "[", "Q", "_", "d", "]", ".", "p", "n", "g">>


(* ------------------- the generated mask (SpecMask) ---------------------- *)
IsBinary(m) == \A p \in DOMAIN m.px : m.px[p] \in {0, 255}

\* C30: every pixel of the mask gen_mask returns is 0 or 255, for every image
\* and every setting of the parameters: this holds of the mask it returns for
\* the image and the parameters of any state, and of the mask kept from the
\* latest call.
C30_GeneratedMaskIsBinary ==
    /\ IsBinary(gen_mask(editor.processor, editor.img_np))
    /\ editor.mask # None => IsBinary(editor.mask)

\* a mask was generated that the closing and the opening made another one
\* than the thresholded distances, and it holds pixels of both values
C30_Witness ==
    /\ editor.mask # None
    /\ editor.mask = gen_mask(editor.processor, editor.img_np)
    /\ editor.mask # gen_mask([editor.processor EXCEPT !.close_iter = 0, !.open_iter = 0],
                              editor.img_np)
    /\ \E p, q \in DOMAIN editor.mask.px : editor.mask.px[p] = 0 /\ editor.mask.px[q] = 255


(* ------------------- the mask of the ROI (SpecROI) ---------------------- *)
\* C39: after any sequence of add_mask_to_history, undo_mask, redo_mask and
\* reset_mask, the mask field of the ROI equals get_current_mask(), the
\* snapshot of its history at mask_edit_idx.
C39_RoiMaskIsCurrentSnapshot == roi.mask = get_current_mask(roi)

(* ------------------- the mask between the strokes (SpecBrush) ----------- *)
\* C31: whenever no stroke is in progress (drawing is false), the mask of the
\* editor equals the snapshot of its history at history_idx, after any
\* interleaving of pointer events with changes of mode, undo, redo and the
\* one-shot operations.
C31_IdleMaskIsCurrentSnapshot ==
    ~widget.drawing => widget.mask = widget.history[widget.history_idx + 1]

(* ------------------- the scratch fields of the modes (SpecSeeded) ------- *)
\* C32: the marker label map exists only while the mode is watershed_mark: in
\* every state with another mode watershed_markers is None, so the scratch
\* buffer of the rectangle/refine tool and the marker label map never exist at
\* the same time.
C32_MarkersOnlyInMarkerMode ==
    /\ widget.mode # "watershed_mark" => widget.watershed_markers = None
    /\ ~(widget.gc_mask # None /\ widget.watershed_markers # None)

\* C33: an initialised scratch buffer of the refinement (gc_initialized with a
\* gc_mask) exists only while the mode is grabcut_refine.
C33_ScratchOnlyInRefine ==
    (widget.gc_initialized /\ widget.gc_mask # None) => widget.mode = "grabcut_refine"

\* C34: whenever the mode is grabcut_refine, an initialised scratch buffer
\* exists (gc_initialized is true and gc_mask is not None), whichever operation
\* caused the mode to be entered.
C34_RefineHasScratch ==
    widget.mode = "grabcut_refine" => (widget.gc_initialized /\ widget.gc_mask # None)

(* ------------------- both seeded tools in one session (SpecModes) ------- *)
\* SpecModes: the toolbar of the dialog offers both seeded tools at any time
\* (run_grabcut, run_watershed), so one session may pass from one to the other
InitModes ==
    /\ widget = MaskEditWidget(ZeroMask)
    /\ roi = FrameROI(FitToImage(ZeroMask))
    /\ button = FALSE
    /\ probe = InitProbe
    /\ editor = SpriteMaskEditor

NextModes ==
    \/ \E pos \in PressPoints, shift \in BOOLEAN : Press(SeededLimits, pos, shift)
    \/ \E pos \in MovePoints(widget) : Move(SeededLimits, pos)
    \/ \E out \in ReleaseOutcomes(widget) : Release(SeededLimits, out)
    \/ SetMode(SeededLimits, "draw")
    \/ EnterGrabcutRect(SeededLimits)
    \/ \E m \in {"fg", "bg"} : SetGrabcutMarkerMode(SeededLimits, m)
    \/ FinishGrabcut(SeededLimits)
    \/ EnterWatershed(SeededLimits)
    \/ \E m \in {"fg", "bg"} : SetWatershedMarkerMode(SeededLimits, m)
    \/ \E out \in WatershedRunOutcomes(widget) : RunWatershed(SeededLimits, out)

SpecModes == InitModes /\ [][NextModes]_vars

\* C35: each time the editor enters watershed_mark (enter_watershed_mode, or
\* set_mode('watershed_mark') from another mode), the marker polarity is fg and
\* the label map is all unmarked, whatever the earlier marker session chose
\* and painted.
C35_MarkerSessionStartsFresh ==
    widget.mode # "watershed_mark" =>
        \A w2 \in {enter_watershed_mode(widget), set_mode(widget, "watershed_mark")} :
            /\ w2.watershed_marker_mode = "fg"
            /\ w2.watershed_markers = Uniform(w2.mask.w, w2.mask.h, 0)

(* ------------------- the contours extract_rois keeps (SpecExtract) ------ *)
\* the place of contour i of found by area, the largest first (1-based); of
\* two contours of the same area the one found first comes first
AreaRank(found, i) ==
    1 + Cardinality({j \in DOMAIN found :
                        \/ found[j].area > found[i].area
                        \/ found[j].area = found[i].area /\ j < i})

\* the contours among the n largest whose area lies in [lo, hi], the largest first
LargestInRange(found, n, lo, hi) ==
    LET at(r) == found[CHOOSE i \in DOMAIN found : AreaRank(found, i) = r]
        ranked == [r \in 1..Len(found) |-> at(r)]
        kept(cnt) == lo <= cnt.area /\ cnt.area <= hi
    IN  SelectSeq(SubSeq(ranked, 1, IF n < Len(found) THEN n ELSE Len(found)), kept)

\* rois are the frames of the contours cnts, one for one and in that order
FramesOf(self, rois, cnts) ==
    /\ Len(rois) = Len(cnts)
    /\ \A i \in DOMAIN rois :
            /\ rois[i].area = cnts[i].area
            /\ rois[i].x = Max(0, cnts[i].rect[1] - self.pad)
            /\ rois[i].y = Max(0, cnts[i].rect[2] - self.pad)

\* C36: extract_rois returns exactly the contours that are among the
\* max_extract largest by area and whose area lies in [min_area, max_area],
\* the largest first: a contour ranked below the max_extract largest is never
\* returned, even when a higher-ranked one was skipped for its area.
C36_LargestThenInRange ==
    LET self == editor.processor
    IN  FramesOf(self, extract_rois(self, editor.img_np, editor.found),
                 LargestInRange(editor.found, self.max_extract,
                                self.min_area, self.max_area))

\* the window extracted with max_extract = 2 from three contours or more, the
\* largest out of range and two others in range: one frame is kept, not two
C36_Witness ==
    LET self == editor.processor
        in_range == {i \in DOMAIN editor.found :
                        /\ self.min_area <= editor.found[i].area
                        /\ editor.found[i].area <= self.max_area}
    IN  /\ self.max_extract = 2
        /\ Len(editor.found) > 2
        /\ Cardinality(in_range) = 2
        /\ Len(editor._all_rois) = 1
        /\ editor._all_rois = extract_rois(self, editor.img_np, editor.found)

(* ------------------- the canvas of a frame (SpecComposite) -------------- *)
\* a plate of PlateSide x PlateSide pixels; a pixel is a number other than 0
\* that tells its place, so that a pixel of a canvas tells where it came from
PlateSide == 12

Plate ==
    [w |-> PlateSide, h |-> PlateSide,
     px |-> [p \in PixOf(PlateSide, PlateSide) |-> 1 + p[1] + PlateSide * p[2]]]

\* one contour on the plate, of the bounding rectangle given
PlateRects ==
    {<<x, y, w, h>> \in {0, 2} \X {0, 1} \X {5, 8, 10} \X {6, 10} :
        x + w <= PlateSide /\ y + h <= PlateSide}

PlateContour(rect) == [area |-> (rect[3] - 1) * (rect[4] - 1), rect |-> rect]

\* pad, max_extract, out_width, out_height of the spin boxes; the canvas is
\* 8 pixels wide and high or more
CanvasPanels == {0, 1} \X {12} \X (8 .. 10) \X (8 .. 10)

InitComposite ==
    /\ \E rect \in PlateRects :
        editor = [SpriteMaskEditor EXCEPT
                     !.img_np = Plate, !.found = <<PlateContour(rect)>>,
                     !.naming_template = StoredTemplate,
                     !.naming_input = <<StoredTemplate>>,
                     !.processor = set_params(MaskProcessor, [min_area |-> 0])]
    /\ widget = MaskEditWidget(ZeroMask)
    /\ roi = FrameROI(FitToImage(ZeroMask))
    /\ button = FALSE
    /\ probe = InitProbe

NextComposite == \E panel \in CanvasPanels : OnParamChange(panel)

SpecComposite == InitComposite /\ [][NextComposite]_vars

\* along one dimension: the offset of a patch of n pixels on a canvas of out
\* pixels, and the number of its leading pixels copied
PatchOffset(out, n) == IF n <= out THEN (out - n) \div 2 ELSE 0
PatchCopied(out, n) == IF n <= out THEN n ELSE out

\* canvas holds patch as C37 says
Composited(canvas, patch) ==
    LET ox == PatchOffset(canvas.w, patch.w)
        oy == PatchOffset(canvas.h, patch.h)
        nx == PatchCopied(canvas.w, patch.w)
        ny == PatchCopied(canvas.h, patch.h)
    IN  /\ ox + nx <= canvas.w /\ oy + ny <= canvas.h
        /\ nx <= patch.w /\ ny <= patch.h
        /\ \A p \in PixOf(canvas.w, canvas.h) :
              canvas.px[p] =
                  IF /\ ox <= p[1] /\ p[1] < ox + nx
                     /\ oy <= p[2] /\ p[2] < oy + ny
                  THEN patch.px[<<p[1] - ox, p[2] - oy>>]
                  ELSE 0

\* the patch extract_rois cut out of the sheet for frame r
PatchOf(e, r) == img_slice(e.img_np, r.x, r.y, r.w, r.h)

\* C37: the canvas of every frame extracted is out_width x out_height; a patch
\* that fits lies at offset ((out_width - rw) // 2, (out_height - rh) // 2); in
\* a dimension where the patch is larger the offset is 0 and only its leading
\* out_width or out_height pixels are copied; the region copied exceeds neither
\* the canvas nor the patch, and every other pixel of the canvas is 0.
C37_PatchCentredOrCut ==
    \A i \in DOMAIN editor._all_rois :
        LET r == editor._all_rois[i]
        IN  /\ r.img.w = editor.processor.out_width
            /\ r.img.h = editor.processor.out_height
            /\ Composited(r.img, PatchOf(editor, r))

\* a frame whose patch is wider than the canvas and less high by 2 or more
C37_Witness ==
    \E i \in DOMAIN editor._all_rois :
        LET r == editor._all_rois[i]
        IN  /\ r.w > r.img.w
            /\ r.h + 2 <= r.img.h
            /\ r.img.px[<<0, 0>>] = 0
            /\ r.img.px[<<0, (r.img.h - r.h) \div 2>>] = PatchOf(editor, r).px[<<0, 0>>]

(* ------------------- sessions of on_edit_mask (SpecDialog) -------------- *)
\* SpecDialog: on_edit_mask opens the dialog on the current mask of the ROI,
\* the editor of the dialog is used, and the dialog is accepted or rejected;
\* between two sessions the ROI may be moved along its history.
\* probe.session is the latest session: its result (open, accepted, rejected)
\* and the ROI as it was when the dialog opened.
MaxSnapshots == 3

DialogLimits ==
    [ghost |-> "none", commits |-> MaxCommits + 1, undos |-> 0, switches |-> 0]

InSession == probe.session.result = "open"

OpenEditMask ==
    /\ ~InSession
    /\ Len(roi.mask_edit_history) < MaxSnapshots
    /\ widget' = MaskEditWidget(get_current_mask(roi))
    /\ button' = FALSE
    /\ probe' = [InitProbe EXCEPT !.session = [result |-> "open", roi |-> roi]]
    /\ UNCHANGED <<roi, editor>>

AcceptEditMask ==
    /\ InSession
    /\ roi' = on_edit_mask_accepted(roi, widget)
    /\ probe' = [probe EXCEPT !.session.result = "accepted"]
    /\ UNCHANGED <<widget, button, editor>>

RejectEditMask ==
    /\ InSession
    /\ probe' = [probe EXCEPT !.session.result = "rejected"]
    /\ UNCHANGED <<widget, roi, button, editor>>

NextDialog ==
    \/ OpenEditMask
    \/ AcceptEditMask
    \/ RejectEditMask
    \/ \E pos \in PressPoints : InSession /\ Press(DialogLimits, pos, FALSE)
    \/ \E pos \in PressPoints : InSession /\ Move(DialogLimits, pos)
    \/ InSession /\ Release(DialogLimits, NoOutcome)
    \/ \E mode \in {"draw", "erase"} : InSession /\ SetMode(DialogLimits, mode)
    \/ InSession /\ ClearMask(DialogLimits)
    \/ InSession /\ Undo(DialogLimits)
    \/ ~InSession /\ UndoMask(DialogLimits)
    \/ ~InSession /\ RedoMask(DialogLimits)

SpecDialog == Init /\ [][NextDialog]_vars

\* C38: one session of on_edit_mask changes the ROI only when the dialog is
\* accepted.  While the dialog is open and after it was rejected the ROI is as
\* it was when the dialog opened, whatever was done in the editor; after it was
\* accepted the history of the ROI is the one it had up to its pointer followed
\* by one snapshot, the final mask of the editor, with the pointer and the
\* mask on it, whatever the number of commits made in the editor.
C38_SessionChangesRoiOnAccept ==
    LET s == probe.session
    IN  /\ s.result \in {"open", "rejected"} => roi = s.roi
        /\ s.result = "accepted" =>
              /\ roi.mask_edit_history =
                    Append(SubSeq(s.roi.mask_edit_history, 1, s.roi.mask_edit_idx + 1),
                           get_mask(widget))
              /\ roi.mask_edit_idx = Len(roi.mask_edit_history) - 1
              /\ roi.mask = get_mask(widget)

\* a session accepted after two commits in the editor, on a ROI that had a
\* redo entry
C38_Witness ==
    /\ probe.session.result = "accepted"
    /\ probe.n = 2
    /\ probe.session.roi.mask_edit_idx < Len(probe.session.roi.mask_edit_history) - 1
    /\ get_mask(widget) # get_current_mask(probe.session.roi)

====
